---- MODULE Spec2Model ----
(***************************************************************************)
(* A model of the HKJC race-result scraper (src/_Fullrace_Date.py) and of  *)
(* the derivation helpers of src/utils.py.                                 *)
(*                                                                         *)
(* Python values are tagged records: None, an int, a float (an exact       *)
(* rational n/d standing for the double nearest to it), a str (a sequence  *)
(* of one-character strings; the no-break space U+00A0 is written "nbsp"), *)
(* a list, and Raised: the outcome "an exception propagates to the caller".*)
(***************************************************************************)
EXTENDS Integers, Sequences, FiniteSets, TLC

VARIABLES
    call,       \* the unit call under way: function, arguments, outcome
    pc,         \* where main is
    course_i,   \* main's position in its list of courses
    race_no,    \* main's race number (race_num of main)
    attempt,    \* the attempt of scrape_race under way for this race
    all_data,   \* main's list of collected records
    csv,        \* the frame main wrote, None before
    driver,     \* the browser driver
    log,        \* the record the scraper's logger wrote last
    _FIELD_SIZE_LOOKUP, \* the field-size table of src/utils.py
    db_queries, \* how many statements get_field_size has sent to the persisted store
    db_last     \* the last of them: its parameters and what the store gave, None before

vars ==
    <<call, pc, course_i, race_no, attempt, all_data, csv, driver, log,
      _FIELD_SIZE_LOOKUP, db_queries, db_last>>

\* the variables of main
scraper == <<pc, course_i, race_no, attempt, all_data, csv, driver>>

\* the field-size index and its store
field_index == <<_FIELD_SIZE_LOOKUP, db_queries, db_last>>

----------------------------------------------------------------------------
(* Python values *)

None == [t |-> "None"]

Raised == [t |-> "Raise"]

PyInt(n) == [t |-> "int", v |-> n]

PyStr(s) == [t |-> "str", v |-> s]

RECURSIVE Gcd(_, _)
Gcd(a, b) == IF b = 0 THEN a ELSE Gcd(b, a % b)

RECURSIVE Dyadic(_)
Dyadic(d) == d = 1 \/ (d % 2 = 0 /\ Dyadic(d \div 2))

\* a float of value about n/d (n >= 0, d > 0), kept as the rational in lowest
\* terms. near: the double is the one nearest to n/d (the result of float(text),
\* or of one operation on operands that are exact); otherwise it is the result
\* of operations on rounded operands and may be a few units in the last place off.
MkFloat(n, d, near) ==
    LET g == Gcd(n, d) IN
    [t |-> "float", n |-> n \div g, d |-> d \div g, near |-> near]

PyFloat(n, d) == MkFloat(n, d, TRUE)

\* the double holds its value exactly (the magnitudes of the model fit 53 bits)
Exact(f) == f.near /\ Dyadic(f.d)

IsStr(x) == x.t = "str"

\* Python truthiness of None / str / int values ("if not x")
Falsy(x) ==
    \/ x.t = "None"
    \/ (x.t = "str" /\ x.v = <<>>)
    \/ (x.t = "int" /\ x.v = 0)

----------------------------------------------------------------------------
(* Characters and str methods *)

DigitChars == <<"0", "1", "2", "3", "4", "5", "6", "7", "8", "9">>

IsDigitChar(c) == \E i \in 1..10 : DigitChars[i] = c

DigitVal(c) == (CHOOSE i \in 1..10 : DigitChars[i] = c) - 1

\* str.isspace for the characters of the model: \s of re and U+00A0
IsSpaceChar(c) == c \in {" ", "\t", "\n", "nbsp"}

LowerChars ==
    <<"a", "b", "c", "d", "e", "f", "g", "h", "i", "j", "k", "l", "m",
      "n", "o", "p", "q", "r", "s", "t", "u", "v", "w", "x", "y", "z">>

UpperChars ==
    <<"A", "B", "C", "D", "E", "F", "G", "H", "I", "J", "K", "L", "M",
      "N", "O", "P", "Q", "R", "S", "T", "U", "V", "W", "X", "Y", "Z">>

UpperChar(c) ==
    IF \E i \in 1..26 : LowerChars[i] = c
    THEN UpperChars[CHOOSE i \in 1..26 : LowerChars[i] = c]
    ELSE c

LowerChar(c) ==
    IF \E i \in 1..26 : UpperChars[i] = c
    THEN LowerChars[CHOOSE i \in 1..26 : UpperChars[i] = c]
    ELSE c

\* str.upper / str.lower
Upper(s) == [i \in 1..Len(s) |-> UpperChar(s[i])]

Lower(s) == [i \in 1..Len(s) |-> LowerChar(s[i])]

\* str.isdigit: non-empty and every character a digit
IsDigitStr(s) == Len(s) > 0 /\ \A i \in 1..Len(s) : IsDigitChar(s[i])

\* int(s) of a digit string
RECURSIVE IntOf(_)
IntOf(s) ==
    IF s = <<>> THEN 0
    ELSE 10 * IntOf(SubSeq(s, 1, Len(s) - 1)) + DigitVal(s[Len(s)])

\* str(n) of a non-negative int
RECURSIVE DigitsOf(_)
DigitsOf(n) ==
    IF n < 10 THEN <<DigitChars[n + 1]>>
    ELSE DigitsOf(n \div 10) \o <<DigitChars[(n % 10) + 1]>>

\* s[i-1:].startswith(sub)
StartsAt(s, i, sub) ==
    i + Len(sub) - 1 <= Len(s) /\ SubSeq(s, i, i + Len(sub) - 1) = sub

\* "sub in s"
Contains(s, sub) ==
    \E i \in 1..(Len(s) - Len(sub) + 1) : SubSeq(s, i, i + Len(sub) - 1) = sub

\* s.find(sub) as a 1-based index, 0 when absent
Find(s, sub) ==
    IF Contains(s, sub)
    THEN CHOOSE i \in 1..(Len(s) - Len(sub) + 1) :
            /\ SubSeq(s, i, i + Len(sub) - 1) = sub
            /\ \A j \in 1..(i - 1) : SubSeq(s, j, j + Len(sub) - 1) # sub
    ELSE 0

\* s.split(c) for a one-character separator: the list of parts
RECURSIVE Split(_, _)
Split(s, c) ==
    LET i == Find(s, <<c>>) IN
    IF i = 0 THEN <<s>>
    ELSE <<SubSeq(s, 1, i - 1)>> \o Split(SubSeq(s, i + 1, Len(s)), c)

\* s.strip()
RECURSIVE LStrip(_)
LStrip(s) ==
    IF s # <<>> /\ IsSpaceChar(Head(s)) THEN LStrip(Tail(s)) ELSE s

RECURSIVE RStrip(_)
RStrip(s) ==
    IF s # <<>> /\ IsSpaceChar(s[Len(s)])
    THEN RStrip(SubSeq(s, 1, Len(s) - 1)) ELSE s

Strip(s) == LStrip(RStrip(s))

\* re.sub(r'[\xa0\s]+', ' ', s): every maximal run of white space becomes one space
RECURSIVE CollapseSpace(_)
CollapseSpace(s) ==
    IF s = <<>> THEN <<>>
    ELSE IF IsSpaceChar(Head(s))
         THEN <<" ">> \o CollapseSpace(LStrip(s))
         ELSE <<Head(s)>> \o CollapseSpace(Tail(s))

\* re.sub(r'[^\d]', '', s)
KeepDigits(s) == SelectSeq(s, IsDigitChar)

\* str(x) of a None / str / int value
ToStr(x) ==
    IF x.t = "None" THEN <<"N", "o", "n", "e">>
    ELSE IF x.t = "int" THEN DigitsOf(x.v)
    ELSE x.v

----------------------------------------------------------------------------
(* float(s) and str(f) *)

RECURSIVE Pow10(_)
Pow10(k) == IF k = 0 THEN 1 ELSE 10 * Pow10(k - 1)

\* float(s) accepts, of the strings over digits and '.', exactly those with at
\* least one digit and at most one '.'; any other raises ValueError
FloatOk(s) ==
    /\ \E i \in 1..Len(s) : IsDigitChar(s[i])
    /\ Cardinality({i \in 1..Len(s) : s[i] = "."}) <= 1

FloatOf(s) ==
    LET parts == Split(s, ".")
        whole == parts[1]
        frac  == IF Len(parts) > 1 THEN parts[2] ELSE <<>>
    IN  PyFloat(IntOf(whole) * Pow10(Len(frac)) + IntOf(frac), Pow10(Len(frac)))

RECURSIVE Strip25(_)
Strip25(d) ==
    IF d % 2 = 0 THEN Strip25(d \div 2)
    ELSE IF d % 5 = 0 THEN Strip25(d \div 5)
    ELSE d

\* the decimal expansion of n/d ends
Terminating(f) == Strip25(f.d) = 1

RECURSIVE FracDigits(_, _)
FracDigits(r, d) ==
    IF r = 0 THEN <<>>
    ELSE <<DigitChars[((10 * r) \div d) + 1]>> \o FracDigits((10 * r) % d, d)

\* str(f), the shortest text that reads back as the same double. For the double
\* nearest to a value whose decimal expansion ends (within 15 digits) that is
\* the expansion itself ("0.75", "2.0", "0.2"). Any other double prints 16 or 17
\* digits; that text is kept symbolic: "repr(n/d)" for the double nearest to
\* n/d, "repr(~n/d)" for a double that operations on rounded operands left
\* near n/d (float 2 + 7/25 prints 2.2800000000000002).
FloatStr(f) ==
    IF f.near /\ Terminating(f)
    THEN LET fd == FracDigits(f.n % f.d, f.d) IN
         DigitsOf(f.n \div f.d) \o <<".">> \o (IF fd = <<>> THEN <<"0">> ELSE fd)
    ELSE <<(IF f.near THEN "repr(" ELSE "repr(~")>>
         \o DigitsOf(f.n) \o <<"/">> \o DigitsOf(f.d) \o <<")">>

\* IEEE operations round correctly: on exact operands the result is nearest
FloatAdd(a, b) == MkFloat(a.n * b.d + b.n * a.d, a.d * b.d, Exact(a) /\ Exact(b))

FloatMul(a, b) == MkFloat(a.n * b.n, a.d * b.d, Exact(a) /\ Exact(b))

\* a / b, b # 0
FloatDiv(a, b) == MkFloat(a.n * b.d, a.d * b.n, Exact(a) /\ Exact(b))

----------------------------------------------------------------------------
(* Scalar parsers of src/_Fullrace_Date.py *)

Placeholders ==
    {<<>>, <<"N", "/", "A">>, <<"-", "-", "-">>, <<"-", "-">>}

clean_text(text) ==
    IF Falsy(text) \/ Strip(ToStr(text)) \in Placeholders THEN None
    ELSE PyStr(Strip(CollapseSpace(ToStr(text))))

safe_int(value) ==
    LET cleaned == KeepDigits(ToStr(value)) IN
    IF cleaned # <<>> THEN PyInt(IntOf(cleaned)) ELSE None

IsDigitOrDot(c) == IsDigitChar(c) \/ c = "."

\* re.sub(r'[^\d.]', '', s)
KeepDigitsAndDots(s) == SelectSeq(s, IsDigitOrDot)

safe_float(value) ==
    LET cleaned == KeepDigitsAndDots(ToStr(value)) IN
    IF cleaned # <<>>
    THEN (IF FloatOk(cleaned) THEN FloatOf(cleaned) ELSE Raised)
    ELSE None

\* the characters of s from position i on that are digits, up to the first non-digit
RECURSIVE DigitRun(_, _)
DigitRun(s, i) ==
    IF i <= Len(s) /\ IsDigitChar(s[i]) THEN <<s[i]>> \o DigitRun(s, i + 1) ELSE <<>>

\* re.search(r'(\d{1,2})/(\d{1,2})/(\d{2,4})', s) tried at position i with a day
\* of dl digits and a month of ml digits (the '/' after each fixes dl and ml)
DateMatchAt(s, i, dl, ml) ==
    /\ i + dl + ml + 3 <= Len(s)
    /\ IsDigitStr(SubSeq(s, i, i + dl - 1))
    /\ s[i + dl] = "/"
    /\ IsDigitStr(SubSeq(s, i + dl + 1, i + dl + ml))
    /\ s[i + dl + ml + 1] = "/"
    /\ Len(DigitRun(s, i + dl + ml + 2)) >= 2

DateMatches(s) ==
    {m \in (1..Len(s)) \X {1, 2} \X {1, 2} : DateMatchAt(s, m[1], m[2], m[3])}

\* m.groups() of the leftmost match: day, month, year (greedy, at most 4 digits)
DateGroups(s) ==
    CHOOSE groups \in
        { LET i  == m[1]
              dl == m[2]
              ml == m[3]
              yr == DigitRun(s, i + dl + ml + 2)
          IN  <<SubSeq(s, i, i + dl - 1),
                SubSeq(s, i + dl + 1, i + dl + ml),
                IF Len(yr) > 4 THEN SubSeq(yr, 1, 4) ELSE yr>> :
            m \in {CHOOSE x \in DateMatches(s) : \A y \in DateMatches(s) : x[1] <= y[1]} } :
        TRUE

IsLeap(y) == (y % 4 = 0 /\ y % 100 # 0) \/ y % 400 = 0

DaysInMonth(y, m) ==
    IF m = 2 THEN (IF IsLeap(y) THEN 29 ELSE 28)
    ELSE IF m \in {4, 6, 9, 11} THEN 30 ELSE 31

\* the directive %d / %m of strptime takes "1".."9", "01".."09" and the two-digit
\* numbers up to hi; "0", "00" and larger numbers do not match
FieldOk(s, hi) == IntOf(s) >= 1 /\ IntOf(s) <= hi

\* the year a %y directive stands for
Year2(yy) == IF yy <= 68 THEN 2000 + yy ELSE 1900 + yy

\* datetime.strptime(f'{day}/{month}/{year}', '%d/%m/%Y' or '%d/%m/%y'): a
\* datetime, or Raised for the ValueError of a text that is no date
strptime(day, month, year, four) ==
    LET y == IF four THEN IntOf(year) ELSE Year2(IntOf(year)) IN
    IF /\ FieldOk(day, 31)
       /\ FieldOk(month, 12)
       /\ Len(year) = (IF four THEN 4 ELSE 2)
       /\ y >= 1
       /\ IntOf(day) <= DaysInMonth(y, IntOf(month))
    THEN [t |-> "datetime", year |-> y, month |-> IntOf(month), day |-> IntOf(day)]
    ELSE Raised

\* f"{n:02d}" for 0 <= n < 100
Pad2(n) == <<DigitChars[(n \div 10) + 1], DigitChars[(n % 10) + 1]>>

\* dt.strftime('%d/%m/%y')
strftime(dt) ==
    Pad2(dt.day) \o <<"/">> \o Pad2(dt.month) \o <<"/">> \o Pad2(dt.year % 100)

\* the formatted date of the groups of a match, Raised when strptime raises
DateOfGroups(g) ==
    CHOOSE date \in
        { IF dt = Raised THEN Raised ELSE PyStr(strftime(dt)) :
            dt \in {strptime(g[1], g[2], g[3], Len(g[3]) = 4)} } : TRUE

\* clean_text(raw_date) or ''
DateText(raw_date) ==
    CHOOSE s \in { IF Falsy(c) THEN <<>> ELSE c.v : c \in {clean_text(raw_date)} } : TRUE

parse_date(raw_date) ==
    CHOOSE date \in
        { IF DateMatches(s) = {} THEN None
          ELSE CHOOSE d \in { DateOfGroups(g) : g \in {DateGroups(s)} } : TRUE :
            s \in {DateText(raw_date)} } : TRUE

\* positions of s where a run of digits starts that is followed by 'M'
DigitsMAt(s) ==
    {i \in 1..Len(s) :
        /\ IsDigitChar(s[i])
        /\ i + Len(DigitRun(s, i)) <= Len(s)
        /\ s[i + Len(DigitRun(s, i))] = "M"}

DigitsAt(s) == {i \in 1..Len(s) : IsDigitChar(s[i])}

Min(S) == CHOOSE x \in S : \A y \in S : x <= y

\* re.search(r'(\d+)', s).group(1); the caller's try turns a failed search
\* (AttributeError on None) into None
FirstDigits(s) == DigitRun(s, Min(DigitsAt(s)))

parse_distance(dist_str) ==
    LET c         == clean_text(dist_str)
        dist_text == IF Falsy(c) THEN <<>> ELSE c.v
        up        == Upper(dist_text)
    IN  IF Contains(up, <<"M">>)
        THEN (IF DigitsMAt(up) = {} THEN None
              ELSE safe_int(PyStr(DigitRun(up, Min(DigitsMAt(up))))))
        ELSE (IF DigitsAt(dist_text) = {} THEN None
              ELSE safe_int(PyStr(FirstDigits(dist_text))))

parse_weight(weight_str) ==
    LET c == clean_text(weight_str)
        s == IF Falsy(c) THEN <<>> ELSE c.v
    IN  IF DigitsAt(s) = {} THEN None ELSE safe_int(PyStr(FirstDigits(s)))

\* the try/except of the function turns every exception into None: a None
\* argument (no split), a part without digits (None * 60), a part float() refuses
convert_time_to_seconds(time_str) ==
    IF time_str = None THEN None
    ELSE LET parts == Split(time_str.v, ":") IN
         IF Len(parts) = 2
         THEN LET a == safe_float(PyStr(parts[1]))
                  b == safe_float(PyStr(parts[2]))
              IN  IF a.t = "float" /\ b.t = "float"
                  THEN FloatAdd(FloatMul(a, PyFloat(60, 1)), b)
                  ELSE None
         ELSE LET f == safe_float(time_str) IN
              IF f = Raised THEN None ELSE f

s_0_01 == <<"0", ".", "0", "1">>

\* a variant of special_cases with the margins of SH and HD exchanged
special_cases_swapped ==
    { <<<<"S", "A", "M", "E">>, s_0_01>>, <<<<"D", "H">>, s_0_01>>, <<<<"D", "H", "T">>, s_0_01>>,
      <<<<"N", "O", "S", "E">>, <<"0", ".", "0", "5">>>>, <<<<"S", "H">>, <<"0", ".", "2">>>>, <<<<"H", "D">>, <<"0", ".", "1">>>>,
      <<<<"N", "K">>, <<"0", ".", "3">>>>, <<<<"N">>, <<"0", ".", "3">>>>, <<<<"S", ".", "D", "I", "S", "T">>, <<"5", "0">>>>,
      <<<<"D", "I", "S", "T">>, <<"9", "9">>>> }

\* special_cases of parse_lbw: <<key, value>>
special_cases ==
    { <<<<"S", "A", "M", "E">>, s_0_01>>,
      <<<<"D", "H">>, s_0_01>>,
      <<<<"D", "H", "T">>, s_0_01>>,
      <<<<"N", "O", "S", "E">>, <<"0", ".", "0", "5">>>>,
      <<<<"S", "H">>, <<"0", ".", "1">>>>,
      <<<<"H", "D">>, <<"0", ".", "2">>>>,
      <<<<"N", "K">>, <<"0", ".", "3">>>>,
      <<<<"N">>, <<"0", ".", "3">>>>,
      <<<<"S", ".", "D", "I", "S", "T">>, <<"5", "0">>>>,
      <<<<"D", "I", "S", "T">>, <<"9", "9">>>> }

\* re.match(r'^\d*\.?\d+$', s)
IsDecimalText(s) ==
    \E k \in 0..(Len(s) - 1) :
        /\ \A i \in 1..k : IsDigitChar(s[i])
        /\ \/ IsDigitStr(SubSeq(s, k + 1, Len(s)))
           \/ (s[k + 1] = "." /\ IsDigitStr(SubSeq(s, k + 2, Len(s))))

\* a variant of the simple-fraction rule that reads the digits of each part
\* and drops the rest, as safe_int does
LbwSimpleFractionLoose(cleaned) ==
    LET parts == Split(cleaned, "/")
        num   == KeepDigits(parts[1])
        den   == KeepDigits(parts[2])
    IN  IF Len(parts) = 2 /\ num # <<>> /\ den # <<>>
        THEN (IF IntOf(den) = 0 THEN Raised
              ELSE PyStr(FloatStr(FloatDiv(PyFloat(IntOf(num), 1),
                                           PyFloat(IntOf(den), 1)))))
        ELSE None

\* the simple-fraction rule: None when the rule does not apply (the code falls
\* through), Raised for its ZeroDivisionError
LbwSimpleFraction(cleaned) ==
    LET parts == Split(cleaned, "/") IN
    IF Len(parts) = 2 /\ IsDigitStr(parts[1]) /\ IsDigitStr(parts[2])
    THEN (IF IntOf(parts[2]) = 0 THEN Raised
          ELSE PyStr(FloatStr(FloatDiv(PyFloat(IntOf(parts[1]), 1),
                                       PyFloat(IntOf(parts[2]), 1)))))
    ELSE None

\* the mixed-number rule: Raised when an unpacking fails (ValueError) or the
\* denominator is zero, None when the rule does not apply
LbwMixedNumber(cleaned) ==
    LET wf == Split(cleaned, "-") IN
    IF Len(wf) # 2 THEN Raised
    ELSE LET whole == wf[1]
             nd    == Split(wf[2], "/")
         IN  IF Len(nd) # 2 THEN Raised
             ELSE IF IsDigitStr(whole) /\ IsDigitStr(nd[1]) /\ IsDigitStr(nd[2])
                  THEN (IF IntOf(nd[2]) = 0 THEN Raised
                        ELSE PyStr(FloatStr(FloatAdd(
                                 PyFloat(IntOf(whole), 1),
                                 FloatDiv(PyFloat(IntOf(nd[1]), 1),
                                          PyFloat(IntOf(nd[2]), 1))))))
                  ELSE None

\* the rules of parse_lbw after the special cases, on the upper-cased token
LbwRules(cleaned) ==
    LET r1 == IF Contains(cleaned, <<"/">>) THEN LbwSimpleFraction(cleaned) ELSE None
        r2 == IF Contains(cleaned, <<"-">>) /\ Contains(cleaned, <<"/">>)
              THEN LbwMixedNumber(cleaned) ELSE None
    IN  IF r1 # None THEN r1
        ELSE IF r2 # None THEN r2
        ELSE IF IsDecimalText(cleaned) THEN PyStr(cleaned)
        ELSE IF IsDigitStr(cleaned) THEN PyStr(cleaned)
        ELSE IF /\ cleaned # <<>>
                /\ cleaned[Len(cleaned)] = "L"
                /\ IsDigitStr(SubSeq(cleaned, 1, Len(cleaned) - 1))
             THEN PyStr(SubSeq(cleaned, 1, Len(cleaned) - 1))
        ELSE None

\* lines 179-208: the margin of a raw margin text, whatever the placing
LbwMargin(lbw_str) ==
    LET c == clean_text(lbw_str) IN
    IF c = None \/ c.v \in ({<<"-">>} \cup Placeholders) THEN None
    ELSE LET cleaned == Upper(c.v) IN
         IF \E e \in special_cases : e[1] = cleaned
         THEN PyStr((CHOOSE e \in special_cases : e[1] = cleaned)[2])
         ELSE LET r == LbwRules(cleaned) IN
              IF r = Raised THEN None ELSE r

\* a variant of parse_lbw that does not look at the placing
parse_lbw_unforced(lbw_str, finish_pos) == LbwMargin(lbw_str)

parse_lbw(lbw_str, finish_pos) ==
    IF finish_pos = PyInt(1) THEN PyStr(s_0_01) ELSE LbwMargin(lbw_str)

----------------------------------------------------------------------------
(* Inputs of the scalar parsers *)

\* every str of at most n characters over the alphabet A
Texts(A, n) == UNION {[1..k -> A] : k \in 0..n}

StrValues(S) == {PyStr(s) : s \in S}

MaxTextLen == 3

RawChars == {"0", "1", ".", ":", "M", " ", "k"}

\* raw cell texts: short texts, the placeholders, and no text at all
RawCells == StrValues(Texts(RawChars, MaxTextLen) \cup Placeholders) \cup {None}

MaxLbwLen == 5

LbwChars == {"0", "1", "2", "3", "4", "/", "-"}

\* the closed vocabulary of the margin column
VocabTokens ==
    { <<"N", "O", "S", "E">>, <<"S", "H">>, <<"H", "D">>, <<"N", "K">>,
      <<"D", "I", "S", "T">>, <<"S", ".", "D", "I", "S", "T">>,
      <<"S", "A", "M", "E">> }

\* every spelling of s in upper and lower case letters
RECURSIVE CaseVariants(_)
CaseVariants(s) ==
    IF s = <<>> THEN {<<>>}
    ELSE {<<c>> \o r : c \in {UpperChar(Head(s)), LowerChar(Head(s))},
                       r \in CaseVariants(Tail(s))}

MaxPad == 1

Pads == Texts({" ", "\t", "nbsp"}, MaxPad)

Padded(S) == {a \o s \o b : a \in Pads, s \in S, b \in Pads}

VocabTexts == Padded(UNION {CaseVariants(tok) : tok \in VocabTokens})

OtherLbwTexts ==
    Padded({ <<"2", "L">>, <<"1", ".", "5">>, <<".", "5">>, <<"7">>, <<"-">>,
             <<"D", "H">>, <<"N">>, <<"d", "h", "t">>, <<"3", " ", "/", " ", "4">>,
             <<"1", "0", "-", "3", "/", "4">>, <<"x", "/", "y">>, <<"L">> })

LbwTexts ==
    StrValues(Texts(LbwChars, MaxLbwLen) \cup VocabTexts \cup OtherLbwTexts
              \cup Placeholders) \cup {None}

\* a placing as safe_int gives it: 1, another number, or None
Placings == {PyInt(1), PyInt(2), None}

DateDays == {<<"4">>, <<"0", "4">>, <<"2", "9">>, <<"3", "1">>, <<"3", "2">>, <<"0">>}

DateMonths == {<<"5">>, <<"0", "9">>, <<"2">>, <<"1", "2">>, <<"1", "3">>, <<"0", "0">>}

DateYears ==
    {<<"2", "5">>, <<"2", "0", "2", "4">>, <<"2", "0", "2", "5">>, <<"9", "9">>,
     <<"2", "0", "2">>, <<"0", "0", "0", "0">>, <<"2", "0", "2", "5", "1">>, <<"7">>}

DateSeps == {"/", "-"}

DatePrefixes == {<<>>, <<"R", "1", " ">>, <<"1">>}

DateTexts ==
    StrValues({p \o d \o <<s>> \o m \o <<s>> \o y :
                  p \in DatePrefixes, d \in DateDays, m \in DateMonths,
                  y \in DateYears, s \in DateSeps}
              \cup Placeholders \cup {<<"n", "o", " ", "d", "a", "t", "e">>})
    \cup {None}

----------------------------------------------------------------------------
(* The scalar parsers, each called on a raw cell *)

Idle == [fn |-> "none", args |-> <<>>, ret |-> None]

\* a call leaves its arguments and its outcome with the caller
Called(fn, args, ret) ==
    /\ call' = [fn |-> fn, args |-> args, ret |-> ret]
    /\ UNCHANGED <<scraper, log, field_index>>

\* no call is under way and main has not begun
Ready == call = Idle /\ pc = "init"

\* the caller takes the outcome and is ready for the next call
Return ==
    /\ call # Idle
    /\ call' = Idle
    /\ UNCHANGED <<scraper, log, field_index>>

CallSafeInt ==
    /\ Ready
    /\ \E x \in RawCells : Called("safe_int", <<x>>, safe_int(x))

CallSafeFloat ==
    /\ Ready
    /\ \E x \in RawCells : Called("safe_float", <<x>>, safe_float(x))

CallParseDate ==
    /\ Ready
    /\ \E x \in DateTexts : Called("parse_date", <<x>>, parse_date(x))

CallParseDistance ==
    /\ Ready
    /\ \E x \in RawCells : Called("parse_distance", <<x>>, parse_distance(x))

CallParseWeight ==
    /\ Ready
    /\ \E x \in RawCells : Called("parse_weight", <<x>>, parse_weight(x))

CallConvertTime ==
    /\ Ready
    /\ \E x \in RawCells :
          Called("convert_time_to_seconds", <<x>>, convert_time_to_seconds(x))

CallParseLbw ==
    /\ Ready
    /\ \E x \in LbwTexts, p \in Placings :
          Called("parse_lbw", <<x, p>>, parse_lbw(x, p))

\* a record of the log: the message and the race it names
LogLine(msg, course, race_num) == [msg |-> msg, course |-> course, race_num |-> race_num]

NoLog == LogLine("", <<>>, 0)

\* _load_race_field_lookup (utils.py lines 146-167): the table as loaded at
\* import, {} when there is no Race_Fieldsize.csv
EmptyTable == [key \in {} |-> 0]

LoadedTable ==
    [key \in { <<<<"2", "0", "2", "5", "/", "0", "5", "/", "0", "4">>, <<"S", "T">>, 1>>, <<<<"2", "0", "2", "5", "/", "0", "5", "/", "0", "4">>, <<"S", "T">>, 2>>,
               <<<<"2", "0", "2", "5", "/", "0", "5", "/", "0", "4">>, <<"H", "V">>, 1>> } |->
        IF key[2] = <<"H", "V">> THEN 10 ELSE IF key[3] = 1 THEN 12 ELSE 0]

\* before main runs: nothing collected, no driver yet, nothing logged
Init ==
    /\ call = Idle
    /\ pc = "init"
    /\ course_i = 1
    /\ race_no = 1
    /\ attempt = 1
    /\ all_data = <<>>
    /\ csv = None
    /\ driver = "none"
    /\ log = NoLog
    /\ _FIELD_SIZE_LOOKUP \in {EmptyTable, LoadedTable}
    /\ db_queries = 0
    /\ db_last = None

NextParsers ==
    \/ CallSafeInt
    \/ CallSafeFloat
    \/ CallParseDate
    \/ CallParseDistance
    \/ CallParseWeight
    \/ CallConvertTime
    \/ CallParseLbw
    \/ Return

SpecParsers == Init /\ [][NextParsers]_vars

----------------------------------------------------------------------------
(* Derivation helpers of src/utils.py *)

get_season_code(date_obj) ==
    IF date_obj.month >= 9
    THEN Pad2(date_obj.year % 100) \o <<"/">> \o Pad2((date_obj.year + 1) % 100)
    ELSE Pad2((date_obj.year - 1) % 100) \o <<"/">> \o Pad2(date_obj.year % 100)

s_Sprint == <<"S", "p", "r", "i", "n", "t">>

s_Short == <<"S", "h", "o", "r", "t">>

s_Mid == <<"M", "i", "d">>

s_Long == <<"L", "o", "n", "g">>

s_Endurance == <<"E", "n", "d", "u", "r", "a", "n", "c", "e">>

s_Unknown == <<"U", "n", "k", "n", "o", "w", "n">>

s_ST == <<"S", "T">>

s_HV == <<"H", "V">>

s_AWT == <<"A", "W", "T">>

s_TURF == <<"T", "U", "R", "F">>

\* a variant of the Sha Tin all-weather ladder without the Sprint bucket
LadderSTAwtNoSprint(distance) ==
    IF distance <= 1200 THEN s_Short
    ELSE IF distance <= 1400 THEN s_Short
    ELSE IF distance <= 1650 THEN s_Mid
    ELSE IF distance <= 2000 THEN s_Long
    ELSE s_Endurance

\* the Sha Tin all-weather ladder
LadderSTAwt(distance) ==
    IF distance <= 1000 THEN s_Sprint
    ELSE IF distance <= 1200 THEN s_Short
    ELSE IF distance <= 1400 THEN s_Short
    ELSE IF distance <= 1650 THEN s_Mid
    ELSE IF distance <= 2000 THEN s_Long
    ELSE s_Endurance

\* the Sha Tin turf ladder
LadderSTTurf(distance) ==
    IF distance <= 1000 THEN s_Sprint
    ELSE IF distance <= 1400 THEN s_Short
    ELSE IF distance <= 1800 THEN s_Mid
    ELSE IF distance <= 2200 THEN s_Long
    ELSE s_Endurance

\* the Happy Valley ladder
LadderHV(distance) ==
    IF distance <= 1000 THEN s_Sprint
    ELSE IF distance <= 1200 THEN s_Short
    ELSE IF distance <= 1800 THEN s_Mid
    ELSE IF distance <= 2200 THEN s_Long
    ELSE s_Endurance

\* Raised: .upper() of None (AttributeError), or None <= 1000 (TypeError)
get_distance_group(race_course, course_type, distance) ==
    IF ~IsStr(course_type) \/ ~IsStr(race_course) THEN Raised
    ELSE LET ct == Upper(course_type.v)
             rc == Upper(race_course.v)
         IN  IF rc = s_ST
             THEN (IF distance.t # "int" THEN Raised
                   ELSE IF ct = s_AWT THEN PyStr(LadderSTAwt(distance.v))
                   ELSE PyStr(LadderSTTurf(distance.v)))
             ELSE IF rc = s_HV
             THEN (IF distance.t # "int" THEN Raised
                   ELSE PyStr(LadderHV(distance.v)))
             ELSE PyStr(s_Unknown)

\* (course or "").strip().upper(), and the same for a surface
NormText(x) == IF Falsy(x) THEN <<>> ELSE Upper(Strip(x.v))

_norm_course(course) ==
    LET t == NormText(course) IN
    IF t \in {s_ST, <<"S", "H", "A", " ", "T", "I", "N">>} \/ Contains(t, <<"S", "H", "A", " ", "T", "I", "N">>) THEN s_ST
    ELSE IF t \in {s_HV, <<"H", "A", "P", "P", "Y", " ", "V", "A", "L", "L", "E", "Y">>} \/ Contains(t, <<"H", "A", "P", "P", "Y", " ", "V", "A", "L", "L", "E", "Y">>) THEN s_HV
    ELSE t

_norm_surface(surface) ==
    LET t == NormText(surface) IN
    IF t \in {s_TURF, <<"T">>} THEN s_TURF
    ELSE IF t \in {s_AWT, <<"A", "L", "L", " ", "W", "E", "A", "T", "H", "E", "R">>, <<"A", "L", "L", "-", "W", "E", "A", "T", "H", "E", "R">>,
                   <<"A", "L", "L", " ", "W", "E", "A", "T", "H", "E", "R", " ", "T", "R", "A", "C", "K">>, <<"D", "I", "R", "T">>} THEN s_AWT
    ELSE t

\* _TURN_COUNT_MAP: <<course, surface, distance, turns as the float n/d>>
_TURN_COUNT_MAP ==
    { <<s_ST, s_TURF, 1000, PyFloat(0, 1)>>,
      <<s_ST, s_TURF, 1200, PyFloat(1, 1)>>, <<s_ST, s_TURF, 1400, PyFloat(1, 1)>>,
      <<s_ST, s_TURF, 1600, PyFloat(1, 1)>>, <<s_ST, s_TURF, 1800, PyFloat(1, 1)>>,
      <<s_ST, s_TURF, 2000, PyFloat(2, 1)>>, <<s_ST, s_TURF, 2200, PyFloat(2, 1)>>,
      <<s_ST, s_TURF, 2400, PyFloat(2, 1)>>,
      <<s_ST, s_AWT, 1200, PyFloat(1, 1)>>,
      <<s_ST, s_AWT, 1650, PyFloat(2, 1)>>, <<s_ST, s_AWT, 1800, PyFloat(2, 1)>>,
      <<s_ST, s_AWT, 2000, PyFloat(2, 1)>>,
      <<s_ST, s_AWT, 2400, PyFloat(3, 1)>>,
      <<s_HV, s_TURF, 1000, PyFloat(1, 1)>>,
      <<s_HV, s_TURF, 1200, PyFloat(3, 2)>>,
      <<s_HV, s_TURF, 1650, PyFloat(5, 2)>>, <<s_HV, s_TURF, 1800, PyFloat(5, 2)>>,
      <<s_HV, s_TURF, 2200, PyFloat(7, 2)>>, <<s_HV, s_TURF, 2400, PyFloat(7, 2)>> }

\* str(x) of a value that may also be a float or a negative int
ToStrNum(x) ==
    IF x.t = "float" THEN FloatStr(x)
    ELSE IF x.t = "int" /\ x.v < 0 THEN <<"-">> \o DigitsOf(0 - x.v)
    ELSE ToStr(x)

\* the digits of an int literal: digits, single underscores between them allowed
IntLiteralOk(s) ==
    /\ s # <<>>
    /\ IsDigitChar(s[1]) /\ IsDigitChar(s[Len(s)])
    /\ \A i \in 1..Len(s) : IsDigitChar(s[i]) \/ s[i] = "_"
    /\ \A i \in 1..(Len(s) - 1) : ~(s[i] = "_" /\ s[i + 1] = "_")

\* int(s.strip()) of a text: an int, or Raised for its ValueError
IntParse(s0) ==
    LET s    == Strip(s0)
        sign == s # <<>> /\ s[1] \in {"+", "-"}
        body == IF sign THEN Tail(s) ELSE s
        n    == IntOf(KeepDigits(body))
    IN  IF IntLiteralOk(body)
        THEN PyInt(IF sign /\ s[1] = "-" THEN 0 - n ELSE n)
        ELSE Raised

\* a variant of get_turn_count that keeps the surface given for Happy Valley
get_turn_count_by_surface(race_course, surface, distance) ==
    LET d == IntParse(ToStrNum(distance)) IN
    IF d = Raised THEN None
    ELSE LET c == _norm_course(race_course)
             s == _norm_surface(surface)
             m == {e \in _TURN_COUNT_MAP : e[1] = c /\ e[2] = s}
         IN  IF \E e \in m : e[3] = d.v
             THEN (CHOOSE e \in m : e[3] = d.v)[4]
             ELSE None

get_turn_count(race_course, surface, distance) ==
    LET d == IntParse(ToStrNum(distance)) IN
    IF d = Raised THEN None
    ELSE LET c  == _norm_course(race_course)
             s0 == _norm_surface(surface)
             s  == IF c = s_HV THEN s_TURF ELSE s0
             m  == {e \in _TURN_COUNT_MAP : e[1] = c /\ e[2] = s}
         IN  IF m = {} THEN None
             ELSE IF \E e \in m : e[3] = d.v
                  THEN (CHOOSE e \in m : e[3] = d.v)[4]
                  ELSE None

is_straight(turn_count) == turn_count = PyFloat(0, 1)

\* float(turn_count) % 1.0 != 0.0
is_fractional_turn(turn_count) ==
    turn_count # None /\ turn_count.n % turn_count.d # 0

is_one_turn_exact(turn_count) == turn_count = PyFloat(1, 1)

s_Inside == <<"I", "n", "s", "i", "d", "e">>

s_InnerMid == <<"I", "n", "n", "e", "r", "M", "i", "d">>

s_OuterMid == <<"O", "u", "t", "e", "r", "M", "i", "d">>

s_Wide == <<"W", "i", "d", "e">>

s_Outer == <<"O", "u", "t", "e", "r">>

\* a variant of get_draw_group that bands the draw by thirds of the field
\* when a field size is given
get_draw_group_relative(draw_number, field_size) ==
    IF draw_number = None THEN None
    ELSE LET d == IntParse(ToStrNum(draw_number)) IN
         IF d = Raised \/ d.v < 1 THEN None
         ELSE IF field_size # None /\ field_size.v > 0
         THEN (IF 3 * d.v <= field_size.v THEN PyStr(s_Inside)
               ELSE IF 3 * d.v <= 2 * field_size.v THEN PyStr(s_OuterMid)
               ELSE PyStr(s_Outer))
         ELSE IF d.v <= 3 THEN PyStr(s_Inside)
         ELSE IF d.v <= 6 THEN PyStr(s_InnerMid)
         ELSE IF d.v <= 9 THEN PyStr(s_OuterMid)
         ELSE IF d.v <= 12 THEN PyStr(s_Wide)
         ELSE PyStr(s_Outer)

get_draw_group(draw_number, field_size) ==
    IF draw_number = None THEN None
    ELSE LET d == IntParse(ToStrNum(draw_number)) IN
         IF d = Raised THEN None
         ELSE IF 1 <= d.v /\ d.v <= 3 THEN PyStr(s_Inside)
         ELSE IF 4 <= d.v /\ d.v <= 6 THEN PyStr(s_InnerMid)
         ELSE IF 7 <= d.v /\ d.v <= 9 THEN PyStr(s_OuterMid)
         ELSE IF 10 <= d.v /\ d.v <= 12 THEN PyStr(s_Wide)
         ELSE IF d.v >= 13 THEN PyStr(s_Outer)
         ELSE None

\* int(x): an int is itself, a float is cut toward zero, a str is read as a
\* literal; Raised for the ValueError or TypeError
PyIntOf(x) ==
    IF x.t = "int" THEN x
    ELSE IF x.t = "float" THEN PyInt(x.n \div x.d)
    ELSE IF x.t = "str" THEN IntParse(x.v)
    ELSE Raised

\* s.replace("/", "-")
SlashToDash(s) == [i \in 1..Len(s) |-> IF s[i] = "/" THEN "-" ELSE s[i]]

\* a row fetchone() gives: the one selected column
PyRow(v) == [t |-> "tuple", v |-> <<v>>]

\* sqlite3.connect raises: no statement reaches the store
NoStore == [t |-> "NoStore"]

\* the statement of lines 188-191 with its three parameters
FieldSizeQuery(race_date, race_course, race_no_int) ==
    [RaceDate |-> SlashToDash(race_date), RaceCourse |-> race_course, RaceNo |-> ToStrNum(PyInt(race_no_int))]

\* lines 185-196 of get_field_size: the fallback to the persisted store.
\* answer is what the store does with the statement: NoStore, Raised (execute
\* raises), None (no matching record) or the first matching row.
FieldSizeFromStore(answer, race_date, race_course, race_no_int) ==
    IF answer = NoStore \/ ~IsStr(race_date)
    THEN [ret |-> None, query |-> None]
    ELSE LET q == [params |-> FieldSizeQuery(race_date.v, race_course, race_no_int), row |-> answer]
         IN  IF answer = Raised \/ answer = None
             THEN [ret |-> None, query |-> q]
             ELSE LET n == PyIntOf(answer.v[1])
                  IN  [ret |-> IF n = Raised THEN None ELSE n, query |-> q]

\* the outcome of one call: what it returns, the table after it, and the
\* statement it sent to the store with the store's answer (None when it sent none)
FieldSizeOutcome(ret, table, query) == [ret |-> ret, table |-> table, query |-> query]

\* a variant of get_field_size that keeps what the store gave in the table
get_field_size_caching(table, answer, race_date, race_course, race_num) ==
    IF race_date = None \/ race_course = None \/ race_num = None
    THEN FieldSizeOutcome(None, table, None)
    ELSE IF ~IsStr(race_course) THEN FieldSizeOutcome(Raised, table, None)
    ELSE LET course == Upper(Strip(race_course.v))
             race_no_int == PyIntOf(race_num)
         IN  IF race_no_int = Raised THEN FieldSizeOutcome(None, table, None)
             ELSE IF IsStr(race_date) /\ <<race_date.v, course, race_no_int.v>> \in DOMAIN table
             THEN FieldSizeOutcome(PyInt(table[<<race_date.v, course, race_no_int.v>>]), table, None)
             ELSE LET db  == FieldSizeFromStore(answer, race_date, course, race_no_int.v)
                      key == <<race_date.v, course, race_no_int.v>>
                  IN  FieldSizeOutcome(db.ret,
                          IF db.ret = None THEN table
                          ELSE [k \in DOMAIN table \cup {key} |-> IF k = key THEN db.ret.v ELSE table[k]],
                          db.query)

\* get_field_size (utils.py lines 169-196) on the table as it stands and the
\* store's answer to the statement it may send; race_num is its race_no
get_field_size(table, answer, race_date, race_course, race_num) ==
    IF race_date = None \/ race_course = None \/ race_num = None
    THEN FieldSizeOutcome(None, table, None)
    ELSE IF ~IsStr(race_course) THEN FieldSizeOutcome(Raised, table, None)
    ELSE LET course == Upper(Strip(race_course.v))
             race_no_int == PyIntOf(race_num)
         IN  IF race_no_int = Raised THEN FieldSizeOutcome(None, table, None)
             ELSE IF IsStr(race_date) /\ <<race_date.v, course, race_no_int.v>> \in DOMAIN table
             THEN FieldSizeOutcome(PyInt(table[<<race_date.v, course, race_no_int.v>>]), table, None)
             ELSE LET db == FieldSizeFromStore(answer, race_date, course, race_no_int.v)
                  IN  FieldSizeOutcome(db.ret, table, db.query)

----------------------------------------------------------------------------
(* The helpers of src/utils.py, each called on its arguments *)

VenueTexts ==
    { s_ST, <<"s", "t">>, <<"S", "t">>, s_HV, <<"h", "v">>, <<"h", "V">>, <<"K", "R">>, <<>>, <<" ", "s", "t", " ">>,
      <<"S", "h", "a", " ", "T", "i", "n">>, <<"H", "A", "P", "P", "Y", " ", "V", "A", "L", "L", "E", "Y">>, <<"H", "a", "p", "p", "y", " ", "V", "a", "l", "l", "e", "y", " ", "(", "H", "V", ")">>, <<"H", "V", "X">> }

SurfaceTexts ==
    { s_TURF, <<"t", "u", "r", "f">>, <<"T", "u", "r", "f">>, <<"T">>, <<"t">>, s_AWT, <<"a", "w", "t">>, <<"A", "w", "t">>,
      <<" ", "a", "w", "t", " ">>, <<"A">>, <<"C", "+", "3">>, <<"D", "I", "R", "T">>, <<"A", "l", "l", " ", "W", "e", "a", "t", "h", "e", "r", " ", "T", "r", "a", "c", "k">>,
      <<"a", "l", "l", "-", "w", "e", "a", "t", "h", "e", "r">>, <<"A", "L", "L", " ", "W", "E", "A", "T", "H", "E", "R">>, <<"S", "A", "N", "D">>, <<>> }

MinDistance == 800

MaxDistance == 2600

\* race distances in metres: every multiple of 50 and the metre after it
DistanceValues == {d \in MinDistance..MaxDistance : d % 50 \in {0, 1}}

\* a distance as a caller may hand it over: an int, a text, a float, None
DistanceInputs ==
    {PyInt(d) : d \in DistanceValues}
    \cup StrValues({ <<"1", "0", "0", "0">>, <<" ", "1", "2", "0", "0", " ">>, <<"1", "_", "2", "0", "0">>, <<"+", "1", "6", "5", "0">>, <<"-", "1", "2", "0", "0">>,
                     <<"1", "2", "0", "0", ".", "0">>, <<"1", "2", "0", "0", "M">>, <<"1", "_", "_", "2", "0", "0">>, <<"_", "1", "2", "0", "0">>, <<"1", "2", " ", "0", "0">>,
                     <<>>, <<"a", "b", "c">> })
    \cup {PyFloat(1200, 1), PyFloat(2401, 2), PyInt(0 - 1200), PyInt(0), None}

MaxDraw == 15

DrawInputs ==
    {PyInt(d) : d \in (0 - 2)..MaxDraw}
    \cup StrValues({ <<"5">>, <<" ", "9", " ">>, <<"-">>, <<>>, <<"x">>, <<"1", "3">>, <<"0">>, <<"-", "3">>,
                     <<"5", ".", "0">>, <<"1", "_", "0">>, <<"+", "7">> })
    \cup {PyFloat(5, 1), PyFloat(11, 2), None}

MaxFieldSize == 14

FieldSizes == {PyInt(n) : n \in 0..MaxFieldSize} \cup {PyInt(20), None}

CallGetDistanceGroup ==
    /\ Ready
    /\ \E v \in StrValues(VenueTexts) \cup {None},
          s \in StrValues(SurfaceTexts) \cup {None},
          d \in {PyInt(d) : d \in DistanceValues} \cup {None} :
          Called("get_distance_group", <<v, s, d>>, get_distance_group(v, s, d))

CallGetTurnCount ==
    /\ Ready
    /\ \E v \in StrValues(VenueTexts) \cup {None},
          s \in StrValues(SurfaceTexts) \cup {None},
          d \in DistanceInputs :
          Called("get_turn_count", <<v, s, d>>, get_turn_count(v, s, d))

CallGetDrawGroup ==
    /\ Ready
    /\ \E d \in DrawInputs, f \in FieldSizes :
          Called("get_draw_group", <<d, f>>, get_draw_group(d, f))

NextUtils ==
    \/ CallGetDistanceGroup
    \/ CallGetTurnCount
    \/ CallGetDrawGroup
    \/ Return

SpecUtils == Init /\ [][NextUtils]_vars

s_RaceDay == <<"2", "0", "2", "5", "/", "0", "5", "/", "0", "4">>

\* dates asked for: none, a day of the table, a day outside it, a date that is no str
FieldDates == {None, PyStr(s_RaceDay), PyStr(<<"2", "0", "2", "5", "/", "0", "5", "/", "0", "7">>), PyInt(20250504)}

FieldCourses == {None, PyStr(s_ST), PyStr(<<" ", "s", "t", " ">>), PyStr(s_HV), PyInt(1)}

FieldRaceNos ==
    {None, PyInt(1), PyInt(2), PyInt(3), PyFloat(3, 2), PyFloat(2, 1)}
    \cup StrValues({ <<"1">>, <<" ", "2", " ">>, <<"x">>, <<>> })

\* what the store may do with one statement
StoreAnswers ==
    {NoStore, Raised, None}
    \cup {PyRow(v) : v \in {PyInt(12), PyInt(0), None, PyStr(<<"1", "4">>), PyStr(<<"x">>)}}

MaxQueries == 2

\* one call of get_field_size; the store's answer is the environment's choice
CallGetFieldSize ==
    /\ Ready
    /\ db_queries < MaxQueries
    /\ \E d \in FieldDates, c \in FieldCourses, n \in FieldRaceNos, answer \in StoreAnswers :
          \E out \in {get_field_size(_FIELD_SIZE_LOOKUP, answer, d, c, n)} :
             /\ call' = [fn |-> "get_field_size", args |-> <<d, c, n>>, ret |-> out.ret]
             /\ _FIELD_SIZE_LOOKUP' = out.table
             /\ db_queries' = IF out.query = None THEN db_queries ELSE db_queries + 1
             /\ db_last' = IF out.query = None THEN db_last ELSE out.query
             /\ UNCHANGED <<scraper, log>>

NextFieldSize ==
    \/ CallGetFieldSize
    \/ Return

SpecFieldSize == Init /\ [][NextFieldSize]_vars

----------------------------------------------------------------------------
(* Categorical classifiers of src/_Fullrace_Date.py *)

\* turf_mapping / awt_mapping of abbreviate_going: <<going, short form>>
turf_mapping ==
    { <<<<"G", "O", "O", "D", " ", "T", "O", " ", "F", "I", "R", "M">>, <<"G", "F">>>>, <<<<"G", "O", "O", "D">>, <<"G">>>>,
      <<<<"G", "O", "O", "D", " ", "T", "O", " ", "Y", "I", "E", "L", "D", "I", "N", "G">>, <<"G", "Y">>>>, <<<<"Y", "I", "E", "L", "D", "I", "N", "G">>, <<"Y">>>>,
      <<<<"S", "O", "F", "T">>, <<"S">>>>, <<<<"F", "I", "R", "M">>, <<"F">>>>, <<<<"H", "E", "A", "V", "Y">>, <<"H">>>>,
      <<<<"Y", "I", "E", "L", "D", "I", "N", "G", " ", "T", "O", " ", "S", "O", "F", "T">>, <<"Y", "S">>>> }

awt_mapping ==
    { <<<<"G", "O", "O", "D">>, <<"G", "D">>>>, <<<<"W", "E", "T", " ", "S", "L", "O", "W">>, <<"W", "S">>>>, <<<<"S", "E", "A", "L", "E", "D">>, <<"S", "E">>>>,
      <<<<"W", "E", "T", " ", "F", "A", "S", "T">>, <<"W", "F">>>>, <<<<"F", "A", "S", "T">>, <<"F", "T">>>>, <<<<"S", "L", "O", "W">>, <<"S", "L">>>> }

\* mapping.get(key, default) of a dict given as a set of <<key, value>>
DictGet(mapping, key, default) ==
    IF \E e \in mapping : e[1] = key
    THEN (CHOOSE e \in mapping : e[1] = key)[2]
    ELSE default

abbreviate_going(going, surface) ==
    IF Falsy(going) THEN None
    ELSE LET going_upper == Upper(Strip(going.v)) IN
         IF surface = PyStr(s_AWT)
         THEN PyStr(DictGet(awt_mapping, going_upper, going.v))
         ELSE PyStr(DictGet(turf_mapping, going_upper, going.v))

\* re.search(r'class (\d+)', s).group(1), <<>> when there is no match
ClassNumOf(s) ==
    LET at == {i \in 1..Len(s) :
                 /\ StartsAt(s, i, <<"c", "l", "a", "s", "s", " ">>)
                 /\ DigitRun(s, i + 6) # <<>>}
    IN  IF at = {} THEN <<>> ELSE DigitRun(s, Min(at) + 6)

\* re.search(r'(\d+) year', s).group(1), <<>> when there is no match
YearNumOf(s) ==
    LET at == {i \in 1..Len(s) :
                 /\ DigitRun(s, i) # <<>>
                 /\ StartsAt(s, i + Len(DigitRun(s, i)), <<" ", "y", "e", "a", "r">>)}
    IN  IF at = {} THEN <<>> ELSE DigitRun(s, Min(at))

class_type_map ==
    { <<<<"s", "t", "a", "n", "d", "a", "r", "d">>, <<"S", "T", "D">>>>, <<<<"g", "r", "i", "f", "f", "i", "n">>, <<"G", "R", "F">>>>, <<<<"g", "r", "o", "u", "p">>, <<"G", "R", "P">>>>,
      <<<<"r", "e", "s", "t", "r", "i", "c", "t", "e", "d">>, <<"R", "S", "T">>>>, <<<<"a", "g", "e">>, <<"A", "G", "E">>>> }

\* the group grade of a label that holds 'group': 1, 2, 3, or 0 (not set)
GroupGradeOf(class_str) ==
    IF Contains(class_str, <<"o", "n", "e">>) THEN 1
    ELSE IF Contains(class_str, <<"t", "w", "o">>) THEN 2
    ELSE IF Contains(class_str, <<"t", "h", "r", "e", "e">>) THEN 3
    ELSE 0

\* the label's primary category before the short form is taken
ClassKindOf(class_str) ==
    IF Contains(class_str, <<"g", "r", "o", "u", "p">>) THEN <<"g", "r", "o", "u", "p">>
    ELSE IF ClassNumOf(class_str) # <<>> THEN <<"s", "t", "a", "n", "d", "a", "r", "d">>
    ELSE IF YearNumOf(class_str) # <<>> THEN <<"a", "g", "e">>
    ELSE <<"s", "t", "a", "n", "d", "a", "r", "d">>

encode_race_class(raw_class) ==
    IF Falsy(raw_class)
    THEN [ ClassType |-> PyStr(<<"u", "n", "k", "n", "o", "w", "n">>), ClassGroup |-> PyInt(0),
           ClassLevel |-> PyInt(0), ClassRestricted |-> PyInt(0),
           ClassYear |-> PyInt(0), ClassGriffin |-> PyInt(0), RaceGrade |-> None ]
    ELSE LET c         == clean_text(raw_class)
             class_str == Lower(IF Falsy(c) THEN <<>> ELSE c.v)
             kind      == ClassKindOf(class_str)
             griffin   == Contains(class_str, <<"g", "r", "i", "f", "f", "i", "n">>)
             grade     == GroupGradeOf(class_str)
             isgroup   == kind = <<"g", "r", "o", "u", "p">>
             isclass   == ~isgroup /\ ClassNumOf(class_str) # <<>>
             isage     == kind = <<"a", "g", "e">>
         IN  [ ClassType |-> PyStr(DictGet(class_type_map, kind, kind)),
               ClassGroup |-> PyInt(IF isgroup THEN grade ELSE 0),
               ClassLevel |->
                   IF griffin THEN PyInt(6)
                   ELSE IF isclass THEN safe_int(PyStr(ClassNumOf(class_str)))
                   ELSE PyInt(0),
               ClassRestricted |->
                   PyInt(IF Contains(class_str, <<"r", "e", "s", "t", "r", "i", "c", "t", "e", "d">>) THEN 1 ELSE 0),
               ClassYear |->
                   IF isage THEN safe_int(PyStr(YearNumOf(class_str))) ELSE PyInt(0),
               ClassGriffin |-> PyInt(IF griffin THEN 1 ELSE 0),
               RaceGrade |-> IF isgroup /\ grade > 0 THEN PyInt(grade) ELSE None ]

----------------------------------------------------------------------------
(* A result page as BeautifulSoup hands it to scrape_race *)

\* str(tag) of a found element: its markup around its text
SpanMarkup(text) ==
    <<"<", "s", "p", "a", "n", " ", "c", "l", "a", "s", "s", "=", "\"", "f", "_", "f", "l", " ", "f", "_", "f", "s", "1", "3", "\"", ">">> \o text \o <<"<", "/", "s", "p", "a", "n", ">">>

TdMarkup(style, text) ==
    <<"<", "t", "d", " ", "s", "t", "y", "l", "e", "=", "\"">> \o style \o <<"\"", ">">> \o text \o <<"<", "/", "t", "d", ">">>

\* re.search(r'\((\d+)\)', s).group(1) of the race header cell, None without a match
RaceIdOf(s) ==
    LET at == {i \in 1..Len(s) :
                 /\ s[i] = "("
                 /\ DigitRun(s, i + 1) # <<>>
                 /\ StartsAt(s, i + 1 + Len(DigitRun(s, i + 1)), <<")">>)}
    IN  IF at = {} THEN None ELSE PyStr(DigitRun(s, Min(at) + 1))

\* Turf_surface_value and Turf_type_value of the surface cell's cleaned text
SurfaceOf(surface_text) ==
    IF Falsy(surface_text) THEN <<None, None>>
    ELSE IF Contains(Upper(surface_text.v), <<"A", "L", "L", " ", "W", "E", "A", "T", "H", "E", "R", " ", "T", "R", "A", "C", "K">>)
         THEN <<PyStr(s_AWT), PyStr(s_AWT)>>
    ELSE IF Contains(surface_text.v, <<"-">>)
         THEN <<PyStr(s_TURF), clean_text(PyStr(Split(surface_text.v, "-")[2]))>>
    ELSE <<None, None>>

course_type_abbreviations ==
    { <<<<"\"", "A", "\"", " ", "C", "o", "u", "r", "s", "e">>, <<"A">>>>, <<<<"\"", "A", "+", "2", "\"", " ", "C", "o", "u", "r", "s", "e">>, <<"A", "+", "2">>>>,
      <<<<"\"", "A", "+", "3", "\"", " ", "C", "o", "u", "r", "s", "e">>, <<"A", "+", "3">>>>, <<<<"\"", "B", "\"", " ", "C", "o", "u", "r", "s", "e">>, <<"B">>>>,
      <<<<"\"", "B", "+", "2", "\"", " ", "C", "o", "u", "r", "s", "e">>, <<"B", "+", "2">>>>, <<<<"\"", "C", "\"", " ", "C", "o", "u", "r", "s", "e">>, <<"C">>>>,
      <<<<"\"", "C", "+", "3", "\"", " ", "C", "o", "u", "r", "s", "e">>, <<"C", "+", "3">>>>, <<<<"A", "L", "L", " ", "W", "E", "A", "T", "H", "E", "R", " ", "T", "R", "A", "C", "K">>, s_AWT>> }

CourseTypeOf(Turf_type_value) ==
    IF Turf_type_value = None THEN None
    ELSE PyStr(DictGet(course_type_abbreviations, Turf_type_value.v, Turf_type_value.v))

\* lines 259-279: the metadata dict from what the header cells gave, or Raised
\* when race_date is (parse_date raised) or get_distance_group raises
Header(race_id_value, going_value, surface, race_date, course, distance, race_num) ==
    LET race_course == IF course = s_ST THEN s_ST ELSE s_HV
        course_type == CourseTypeOf(surface[2])
        group       == IF distance # None
                       THEN get_distance_group(PyStr(race_course), course_type, distance)
                       ELSE None
    IN  IF race_date = Raised \/ group = Raised THEN Raised
        ELSE [ RaceDate |-> race_date,
               Season |-> IF Falsy(race_date) THEN None
                          ELSE PyStr(get_season_code(
                                   strptime(SubSeq(race_date.v, 1, 2),
                                            SubSeq(race_date.v, 4, 5),
                                            SubSeq(race_date.v, 7, 8), FALSE))),
               RaceCourse |-> PyStr(race_course),
               RaceNo |-> PyInt(race_num),
               RaceID |-> race_id_value,
               Distance |-> distance,
               DistanceGroup |-> group,
               GoingType |-> abbreviate_going(going_value, surface[1]),
               Surface |-> surface[1],
               CourseType |-> course_type ]

\* the metadata dict of scrape_race (lines 221-279): the header cells are
\* looked up and parsed, each missing cell giving None
Metadata(page, course, race_num) ==
    Header(IF page.header_td = None THEN None ELSE RaceIdOf(page.header_td.v),
           IF Len(page.going_td) >= 1 THEN clean_text(PyStr(page.going_td[1]))
           ELSE None,
           SurfaceOf(IF Len(page.going_td) >= 2
                     THEN clean_text(PyStr(page.going_td[2])) ELSE None),
           parse_date(IF page.date_span = None THEN None
                      ELSE PyStr(SpanMarkup(page.date_span.v))),
           course,
           parse_distance(IF page.width_td = None THEN None
                          ELSE PyStr(TdMarkup(page.width_td.style,
                                              page.width_td.text))),
           race_num)

s_GRF == <<"G", "R", "F">>

s_RST == <<"R", "S", "T">>

s_GRP == <<"G", "R", "P">>

s_AGE == <<"A", "G", "E">>

\* a variant of the overrides that tests Restricted before Griffin
ForceClassTypeRestrictedFirst(cf) ==
    IF cf.ClassRestricted = PyInt(1) THEN [cf EXCEPT !.ClassType = PyStr(s_RST)]
    ELSE IF cf.ClassGriffin = PyInt(1) THEN [cf EXCEPT !.ClassType = PyStr(s_GRF)]
    ELSE cf

\* lines 284-290: the Griffin and Restricted overrides of ClassType
ForceClassType(cf) ==
    IF cf.ClassGriffin = PyInt(1) THEN [cf EXCEPT !.ClassType = PyStr(s_GRF)]
    ELSE IF cf.ClassRestricted = PyInt(1) THEN [cf EXCEPT !.ClassType = PyStr(s_RST)]
    ELSE cf

\* lines 292-300: the counter of a Group or Age race becomes the level, and the
\* counter field a binary flag
PromoteLevel(cf) ==
    IF cf.ClassType = PyStr(s_GRP)
    THEN [cf EXCEPT !.ClassLevel = cf.ClassGroup, !.ClassGroup = PyInt(1)]
    ELSE IF cf.ClassType = PyStr(s_AGE)
    THEN [cf EXCEPT !.ClassLevel = cf.ClassYear, !.ClassYear = PyInt(1)]
    ELSE cf

\* lines 302-320: ClassCategory, Class and ClassML
LabelClass(cf) ==
    LET ty    == cf.ClassType.v
        level == ToStr(cf.ClassLevel)
        full  == [k \in DOMAIN cf \cup {"ClassCategory", "Class", "ClassML"} |->
                     IF k \in DOMAIN cf THEN cf[k] ELSE None]
    IN  [full EXCEPT
            !.ClassCategory = PyStr(ty \o <<"_">> \o level),
            !.Class = PyStr(IF ty = s_GRP THEN <<"G">> \o level
                            ELSE IF ty = s_AGE THEN level \o <<"Y", "O">>
                            ELSE IF ty = s_GRF THEN <<"G", "R", "I", "F", "F", "I", "N">>
                            ELSE IF ty = s_RST THEN level \o <<"R">>
                            ELSE level),
            !.ClassML = IF ty = s_GRF THEN PyInt(6) ELSE cf.ClassLevel]

\* class_features of scrape_race (lines 281-320)
ClassFeatures(page) ==
    LabelClass(PromoteLevel(ForceClassType(
        encode_race_class(IF page.width_td = None THEN None
                          ELSE PyStr(page.width_td.text)))))

----------------------------------------------------------------------------
(* The row assembler of scrape_race (lines 322-359) *)

\* a merged with b, b's values winning: {**a, **b}
Merge(a, b) ==
    CHOOSE merged \in
        { [k \in DOMAIN d.a \cup DOMAIN d.b |->
              IF k \in DOMAIN d.b THEN d.b[k] ELSE d.a[k]] :
            d \in {[a |-> a, b |-> b]} } : TRUE

\* re.search(r'HorseId=([^&]+)', href).group(1), None without a match
HorseIdOf(href) ==
    LET at == {i \in 1..Len(href) :
                 /\ StartsAt(href, i, <<"H", "o", "r", "s", "e", "I", "d", "=">>)
                 /\ i + 8 <= Len(href)
                 /\ href[i + 8] # "&"}
        from == Min(at) + 8
        rest == SubSeq(href, from, Len(href))
        stop == Find(rest, <<"&">>)
    IN  IF at = {} THEN None
        ELSE PyStr(IF stop = 0 THEN rest ELSE SubSeq(rest, 1, stop - 1))

\* text.split(' ', 1)[-1]: what follows the first space, or the whole text
AfterFirstSpace(s) ==
    LET i == Find(s, <<" ">>) IN
    IF i = 0 THEN s ELSE SubSeq(s, i + 1, Len(s))

\* the row is left out: too few cells, or no numeric horse number
RowSkipped(row) ==
    \/ Len(row.cols) < 12
    \/ LET horse_num_text == clean_text(PyStr(row.cols[2])) IN
       Falsy(horse_num_text) \/ ~IsDigitStr(horse_num_text.v)

\* horse_data of one row that is not left out, or Raised when its processing
\* raises (safe_float on the odds cell): the row's except then drops the row
RowRecord(row, metadata, class_features) ==
    LET cols       == row.cols
        finish_pos == safe_int(clean_text(PyStr(cols[1])))
        horse_info == row.link
        horse_id   == IF horse_info # None /\ horse_info.href # None
                      THEN HorseIdOf(horse_info.href.v) ELSE None
        odds       == safe_float(clean_text(PyStr(cols[12])))
    IN  IF odds = Raised THEN Raised
        ELSE Merge(Merge(metadata, class_features),
               [ Placing |-> finish_pos,
                 HorseNumber |-> safe_int(clean_text(PyStr(cols[2]))),
                 HorseID |-> horse_id,
                 HorseName |-> clean_text(IF horse_info # None
                                          THEN PyStr(horse_info.text) ELSE None),
                 Jockey |-> clean_text(PyStr(cols[4])),
                 Trainer |-> clean_text(PyStr(cols[5])),
                 ActualWeight |-> parse_weight(PyStr(cols[6])),
                 DeclaredHorseWeight |-> parse_weight(PyStr(cols[7])),
                 Draw |-> safe_int(clean_text(PyStr(cols[8]))),
                 LBW |-> parse_lbw(PyStr(cols[9]), finish_pos),
                 RunningPosition |-> clean_text(PyStr(AfterFirstSpace(cols[10]))),
                 FinishTime |-> convert_time_to_seconds(PyStr(cols[11])),
                 WinOdds |-> odds ])

\* a variant of Results in which a row whose processing raises ends the loop
RECURSIVE ResultsUntilRaise(_, _, _)
ResultsUntilRaise(rows, metadata, class_features) ==
    IF rows = <<>> THEN <<>>
    ELSE LET row  == Head(rows)
             rest == ResultsUntilRaise(Tail(rows), metadata, class_features)
         IN  IF RowSkipped(row) THEN rest
             ELSE LET r == RowRecord(row, metadata, class_features) IN
                  IF r = Raised THEN <<>> ELSE <<r>> \o rest

\* results: the records of the rows in page order, the left-out rows dropped
RECURSIVE Results(_, _, _)
Results(rows, metadata, class_features) ==
    IF rows = <<>> THEN <<>>
    ELSE LET row  == Head(rows)
             rest == Results(Tail(rows), metadata, class_features)
         IN  IF RowSkipped(row) THEN rest
             ELSE LET r == RowRecord(row, metadata, class_features) IN
                  IF r = Raised THEN rest ELSE <<r>> \o rest

PyList(s) == [t |-> "list", v |-> s]

\* one attempt of scrape_race on what the driver got: Raised (the page could
\* not be got, or the header raised), None (a page saying "No result"), or
\* the list of the page's records
scrape_race(fetch, course, race_num) ==
    IF fetch.failed THEN Raised
    ELSE IF fetch.no_result THEN None
    ELSE CHOOSE results \in
             { IF h.metadata = Raised THEN Raised
               ELSE PyList(Results(fetch.rows, h.metadata, h.class_features)) :
                   h \in {[ metadata |-> Metadata(fetch, course, race_num),
                            class_features |-> ClassFeatures(fetch) ]} } : TRUE

----------------------------------------------------------------------------
(* Pages *)

Page(header_td, going_td, date_span, width_td, rows) ==
    [ failed |-> FALSE, no_result |-> FALSE, header_td |-> header_td,
      going_td |-> going_td, date_span |-> date_span, width_td |-> width_td,
      rows |-> rows ]

\* driver.get raised
FailedFetch ==
    [ failed |-> TRUE, no_result |-> FALSE, header_td |-> None, going_td |-> <<>>,
      date_span |-> None, width_td |-> None, rows |-> <<>> ]

\* a page whose text holds "No result"
NoResultPage ==
    [ failed |-> FALSE, no_result |-> TRUE, header_td |-> None, going_td |-> <<>>,
      date_span |-> None, width_td |-> None, rows |-> <<>> ]

WidthTd(style, text) == [style |-> style, text |-> text]

Row(cols, link) == [cols |-> cols, link |-> link]

Link(href, text) == [href |-> href, text |-> text]

GoodLink == Link(PyStr(<<"/", "h", "o", "r", "s", "e", "?", "H", "o", "r", "s", "e", "I", "d", "=", "H", "K", "_", "2", "0", "2", "0", "_", "E", "4", "3", "6", "&", "O", "p", "t", "=", "1">>), <<"L", "U", "C", "K", "Y", " ", "S", "T", "A", "R">>)

\* a row of twelve cells with the given placing, horse number, margin and odds
RowOf(placing, number, lbw, odds) ==
    Row(<<placing, number, <<"L", "U", "C", "K", "Y", " ", "S", "T", "A", "R", " ", "(", "E", "4", "3", "6", ")">>, <<"Z", " ", "P", "u", "r", "t", "o", "n">>, <<"J", " ", "S", "i", "z", "e">>,
          <<"1", "2", "6">>, <<"1", "0", "5", "0">>, <<"7">>, lbw, <<"1", " ", "2", " ", "2", " ", "1">>, <<"1", ":", "0", "9", ".", "5", "0">>, odds>>,
        GoodLink)

GoodRow == RowOf(<<"2">>, <<"5">>, <<"1", "-", "1", "/", "2">>, <<"4", ".", "6">>)

\* the date span's text
DateSpans ==
    { None, PyStr(<<"R", "a", "c", "e", " ", "M", "e", "e", "t", "i", "n", "g", ":", " ", "0", "4", "/", "0", "5", "/", "2", "0", "2", "5", " ", "S", "h", "a", " ", "T", "i", "n">>), PyStr(<<"R", "a", "c", "e", " ", "M", "e", "e", "t", "i", "n", "g">>),
      PyStr(<<"3", "1", "/", "0", "2", "/", "2", "0", "2", "5">>) }

\* the texts of the cells with colspan 14: going, then surface
GoingLists ==
    { <<>>, << <<"G", "O", "O", "D">> >>,
      << <<"G", "O", "O", "D", " ", "T", "O", " ", "F", "I", "R", "M">>, <<"T", "U", "R", "F", " ", "-", " ", "\"", "A", "\"", " ", "C", "o", "u", "r", "s", "e">> >>,
      << <<"W", "e", "t", " ", "S", "l", "o", "w">>, <<"A", "L", "L", " ", "W", "E", "A", "T", "H", "E", "R", " ", "T", "R", "A", "C", "K">> >>,
      << <<"N", "/", "A">>, <<"T", "u", "r", "f", " ", "-", " ", "i", "n", "n", "e", "r">> >>,
      << <<"g", "o", "o", "d">>, <<"T", "U", "R", "F">> >>,
      << <<"G", "O", "O", "D">>, <<"T", "U", "R", "F", " ", "-", " ">> >> }

HeaderTds == { None, PyStr(<<"R", "A", "C", "E", " ", "1", " ", "(", "8", "2", "8", ")">>), PyStr(<<"R", "A", "C", "E", " ", "1">>) }

\* the cell with a width style: its style and its text (class and distance)
WidthTds ==
    { None,
      WidthTd(<<"w", "i", "d", "t", "h", ":", "a", "u", "t", "o">>, <<"C", "l", "a", "s", "s", " ", "4", " ", "-", " ", "1", "2", "0", "0", "M", " ", "-", " ", "(", "6", "0", "-", "4", "0", ")">>),
      WidthTd(<<"w", "i", "d", "t", "h", ":", "a", "u", "t", "o">>, <<"G", "r", "i", "f", "f", "i", "n", " ", "P", "l", "a", "t", "e">>),
      WidthTd(<<"w", "i", "d", "t", "h", ":", "a", "u", "t", "o">>, <<>>),
      WidthTd(<<"w", "i", "d", "t", "h", ":", " ", "3", "8", "5", "p", "x", ";">>, <<"h", "a", "n", "d", "i", "c", "a", "p">>) }

\* the segments a class label is put together from
LabelSegments ==
    { <<"g", "r", "i", "f", "f", "i", "n">>, <<"G", "r", "i", "f", "f", "i", "n">>, <<"r", "e", "s", "t", "r", "i", "c", "t", "e", "d">>, <<"G", "r", "o", "u", "p", " ", "O", "n", "e">>, <<"g", "r", "o", "u", "p", " ", "t", "w", "o">>,
      <<"C", "l", "a", "s", "s", " ", "4">>, <<"3", " ", "y", "e", "a", "r", " ", "o", "l", "d", "s">>, <<"-", " ", "1", "6", "5", "0", "m", " ", "-">> }

MaxSegments == 3

\* the segments joined by single spaces
RECURSIVE JoinSegments(_)
JoinSegments(segs) ==
    IF segs = <<>> THEN <<>>
    ELSE IF Len(segs) = 1 THEN segs[1]
    ELSE segs[1] \o <<" ">> \o JoinSegments(Tail(segs))

ClassLabels ==
    {JoinSegments(segs) : segs \in Texts(LabelSegments, MaxSegments)}
    \cup { <<"G", "R", "O", "U", "P", " ", "T", "H", "R", "E", "E">>, <<"g", "r", "o", "u", "p">>, <<"c", "l", "a", "s", "s", " ", "1", "2", " ", "g", "r", "i", "f", "f", "i", "n">>, <<"N", "/", "A">>, <<" ">> }

\* pages that vary the header cells, with one good row
CellPages ==
    { Page(h, g, d, w, <<GoodRow>>) :
        h \in HeaderTds, g \in GoingLists, d \in DateSpans, w \in WidthTds }

\* the page with a complete header
FullPage(label, rows) ==
    Page(PyStr(<<"R", "A", "C", "E", " ", "1", " ", "(", "8", "2", "8", ")">>), << <<"G", "O", "O", "D">>, <<"T", "U", "R", "F", " ", "-", " ", "\"", "A", "\"", " ", "C", "o", "u", "r", "s", "e">> >>,
         PyStr(<<"0", "4", "/", "0", "5", "/", "2", "0", "2", "5">>), WidthTd(<<"w", "i", "d", "t", "h", ":", "a", "u", "t", "o">>, label), rows)

\* pages that vary the class label of a complete header
ClassPages == { FullPage(tx, <<GoodRow>>) : tx \in ClassLabels }

\* result pages of the site
WinnerPage ==
    FullPage(<<"C", "l", "a", "s", "s", " ", "4", " ", "-", " ", "1", "2", "0", "0", "M", " ", "-", " ", "(", "6", "0", "-", "4", "0", ")">>,
             << RowOf(<<"1">>, <<"3">>, <<"-">>, <<"4", ".", "6">>),
                RowOf(<<"2">>, <<"5">>, <<"1", "-", "1", "/", "2">>, <<"1", "2">>) >>)

\* a dead heat for first whose margin cells hold text, and a withdrawn horse
DeadHeatPage ==
    FullPage(<<"G", "r", "i", "f", "f", "i", "n", " ", "P", "l", "a", "t", "e", " ", "-", " ", "1", "0", "0", "0", "M">>,
             << RowOf(<<"1">>, <<"1">>, <<"N", "O", "S", "E">>, <<"2", ".", "5">>),
                RowOf(<<"1", " ", "D", "H">>, <<"2">>, <<"a", "b", "c">>, <<"3">>),
                RowOf(<<"W", "V">>, <<"7">>, <<"-", "-", "-">>, <<"-", "-", "-">>) >>)

\* a page without a date, its winner's margin a number, one row without placing
UndatedPage ==
    Page(None, << <<"G", "O", "O", "D">>, <<"A", "L", "L", " ", "W", "E", "A", "T", "H", "E", "R", " ", "T", "R", "A", "C", "K">> >>, None,
         WidthTd(<<"w", "i", "d", "t", "h", ":", "a", "u", "t", "o">>, <<"1", "6", "5", "0", "M">>),
         << RowOf(<<>>, <<"6">>, <<"3", "/", "4">>, <<"9", ".", "9">>),
            RowOf(<<"0", "1">>, <<"2">>, <<"1", "-", "1", "/", "2">>, <<"5">>) >>)

\* a page whose header raises: a distance and no surface cell
NoSurfacePage ==
    Page(PyStr(<<"R", "A", "C", "E", " ", "1", " ", "(", "8", "2", "8", ")">>), << <<"G", "O", "O", "D">> >>, PyStr(<<"0", "4", "/", "0", "5", "/", "2", "0", "2", "5">>),
         WidthTd(<<"w", "i", "d", "t", "h", ":", "a", "u", "t", "o">>, <<"C", "l", "a", "s", "s", " ", "4", " ", "-", " ", "1", "2", "0", "0", "M">>), <<GoodRow>>)

\* a page with none of the header cells, its one row without a horse link
SparsePage ==
    Page(None, <<>>, None, None,
         << Row(RowOf(<<"3">>, <<"4">>, <<"2", "L">>, <<"-", "-", "-">>).cols, None) >>)

\* a page whose only row has an odds cell float() refuses
BadOddsPage ==
    FullPage(<<"C", "l", "a", "s", "s", " ", "4", " ", "-", " ", "1", "2", "0", "0", "M">>, << RowOf(<<"1">>, <<"3">>, <<"-">>, <<"1", ".", "2", ".", "3">>) >>)

ResultPages ==
    { WinnerPage, DeadHeatPage, UndatedPage, NoSurfacePage, SparsePage, BadOddsPage,
      FullPage(<<"C", "l", "a", "s", "s", " ", "4", " ", "-", " ", "1", "2", "0", "0", "M">>, <<>>) }

\* the rows a result table may hold
WinnerRow == RowOf(<<"1">>, <<"3">>, <<"-">>, <<"4", ".", "6">>)

\* a row of eleven cells
ShortRow == Row(SubSeq(GoodRow.cols, 1, 11), GoodLink)

\* a row whose horse number cell is empty, and one whose cell holds a letter
UnnumberedRow == RowOf(<<"W", "V">>, <<>>, <<"-", "-", "-">>, <<"-", "-", "-">>)

LetteredRow == RowOf(<<"3">>, <<"A", "1">>, <<"2">>, <<"7", ".", "5">>)

\* a row whose odds cell float() refuses
BadOddsRow == RowOf(<<"4">>, <<"8">>, <<"3", "-", "1", "/", "4">>, <<"1", ".", "2", ".", "3">>)

\* a row without a horse link
UnlinkedRow == Row(RowOf(<<"3">>, <<"4">>, <<"2", "L">>, <<"-", "-", "-">>).cols, None)

RowKinds == {WinnerRow, GoodRow, ShortRow, UnnumberedRow, LetteredRow, BadOddsRow, UnlinkedRow}

MaxRows == 3

\* pages of a complete header whose table holds up to MaxRows rows of these kinds
RowPages == { FullPage(<<"C", "l", "a", "s", "s", " ", "4", " ", "-", " ", "1", "2", "0", "0", "M">>, rows) : rows \in Texts(RowKinds, MaxRows) }

\* the course codes a caller may ask for; main asks for ST and HV
CourseCodes == { s_ST, s_HV, <<"K", "R">> }

RaceCalls ==
    (CellPages \X CourseCodes)
    \cup ((ClassPages \cup ResultPages \cup RowPages \cup {FailedFetch, NoResultPage}) \X {s_ST})

\* scrape_race called once (one attempt), with the header it built
CallScrapeRace ==
    /\ Ready
    /\ \E c \in RaceCalls :
          LET page   == c[1]
              course == c[2]
              header == ~(page.failed \/ page.no_result)
          IN  call' = [ fn |-> "scrape_race",
                        args |-> <<page, course, 1>>,
                        ret |-> scrape_race(page, course, 1),
                        metadata |-> IF header THEN Metadata(page, course, 1)
                                     ELSE None,
                        class_features |-> IF header THEN ClassFeatures(page)
                                           ELSE None ]
    /\ UNCHANGED <<scraper, log, field_index>>

NextRace ==
    \/ CallScrapeRace
    \/ Return

SpecRace == Init /\ [][NextRace]_vars

----------------------------------------------------------------------------
(* main (lines 384-420): every race of every course, then the frame *)

max_attempts == 3

\* one past the last race number: range(1, 12)
race_num_stop == 12

courses == <<s_ST, s_HV>>

columns ==
    << "RaceDate", "Season", "RaceCourse", "RaceNo", "RaceID", "Distance",
       "DistanceGroup", "GoingType", "Surface", "CourseType", "ClassType", "Class",
       "ClassML", "ClassGriffin", "ClassGroup", "ClassRestricted", "ClassYear",
       "ClassCategory", "HorseNumber", "HorseID", "HorseName", "Jockey", "Trainer",
       "ActualWeight", "DeclaredHorseWeight", "Draw", "LBW", "RunningPosition",
       "FinishTime", "WinOdds", "Placing", "RaceGrade" >>

\* line 404: the row has a placing
Placed(r) == r.Placing # None /\ Strip(ToStr(r.Placing)) # <<>>

\* lines 405-407: a declared column the frame lacks is added, null
AddColumns(r) ==
    [k \in DOMAIN r \cup {columns[i] : i \in DOMAIN columns} |->
        IF k \in DOMAIN r THEN r[k] ELSE None]

\* line 408: the margin of a row placed 1 is set to the sentinel
OverrideLBW(r) ==
    IF r.Placing = PyInt(1) THEN [r EXCEPT !.LBW = PyStr(s_0_01)] ELSE r

\* line 411: RaceDate parsed again and made text; Raised when parse_date raises
ReparseDate(r) ==
    IF parse_date(r.RaceDate) = Raised THEN Raised
    ELSE [r EXCEPT !.RaceDate = PyStr(ToStr(parse_date(r.RaceDate)))]

\* a variant of the column selection that keeps every key of the record
SelectColumnsAll(r) == r

\* line 412: the declared columns alone
SelectColumns(r) ==
    IF r = Raised THEN Raised
    ELSE [k \in {columns[i] : i \in DOMAIN columns} |-> r[k]]

\* lines 405-412 on one row of the frame
FrameRow(r) ==
    CHOOSE row \in
        { SelectColumns(dated) :
            dated \in { ReparseDate(marked) :
                marked \in { OverrideLBW(added) : added \in {AddColumns(r)} } } } : TRUE

\* lines 404-412: the rows with a placing, in order, each with the declared columns
RECURSIVE FrameRows(_)
FrameRows(rows) ==
    IF rows = <<>> THEN <<>>
    ELSE IF Placed(Head(rows)) THEN <<FrameRow(Head(rows))>> \o FrameRows(Tail(rows))
    ELSE FrameRows(Tail(rows))

\* lines 402-414: the frame written for the collected records, or Raised
Frame(data) ==
    CHOOSE frame \in
        { IF \E i \in DOMAIN rows : rows[i] = Raised THEN Raised
          ELSE [header |-> columns, rows |-> rows] :
              rows \in {FrameRows(data)} } : TRUE

\* the races numbered above it have no result page on the site
MaxResultRace == 1

\* what the driver may get for the race main is at
Fetches ==
    {FailedFetch, NoResultPage}
    \cup (IF race_no <= MaxResultRace THEN ResultPages ELSE {})

\* the processing of the row raises: float() refuses the odds cell (line 353)
RowRaises(row) ==
    ~RowSkipped(row) /\ safe_float(clean_text(PyStr(row.cols[12]))) = Raised

\* the record the logger wrote last when an attempt returned race_data: "No
\* results" (line 218), the runners of the race (line 397), the warning of a
\* row that raised (line 357) when no record was left, else what it was
LastLog(page, race_data, course, race_num) ==
    IF race_data = None THEN LogLine("No results", course, race_num)
    ELSE IF race_data.v # <<>> THEN LogLine("runners", course, race_num)
    ELSE IF \E i \in DOMAIN page.rows : RowRaises(page.rows[i])
         THEN LogLine("Horse processing error", course, race_num)
    ELSE log

\* line 385-386: the driver is started, nothing is collected
Initialize ==
    /\ pc = "init"
    /\ call = Idle
    /\ pc' = "race"
    /\ driver' = "open"
    /\ all_data' = <<>>
    /\ UNCHANGED <<call, course_i, race_no, attempt, csv, log, field_index>>

\* the loops of lines 392-393 go on to the next race, or end
Advance ==
    /\ attempt' = 1
    /\ IF race_no + 1 < race_num_stop
       THEN race_no' = race_no + 1 /\ UNCHANGED <<course_i, pc>>
       ELSE IF course_i < Len(courses)
       THEN course_i' = course_i + 1 /\ race_no' = 1 /\ UNCHANGED pc
       ELSE pc' = "frame" /\ UNCHANGED <<course_i, race_no>>

\* an attempt of scrape_race raises and another follows at once (line 210)
AttemptRetried ==
    /\ pc = "race"
    /\ attempt < max_attempts
    /\ \E page \in Fetches : scrape_race(page, courses[course_i], race_no) = Raised
    /\ attempt' = attempt + 1
    /\ log' = LogLine("Race scraping error", courses[course_i], race_no)
    /\ UNCHANGED <<call, pc, course_i, race_no, all_data, csv, driver, field_index>>

\* a variant of RaceFailed in which the failure ends the loops of main
RaceFailedAborts ==
    /\ pc = "race"
    /\ attempt = max_attempts
    /\ \E page \in Fetches : scrape_race(page, courses[course_i], race_no) = Raised
    /\ pc' = "quit"
    /\ log' = LogLine("Failed after retries", courses[course_i], race_no)
    /\ UNCHANGED <<call, course_i, race_no, attempt, all_data, csv, driver, field_index>>

\* the last attempt raises: main logs the failure and continues (lines 398-400)
RaceFailed ==
    /\ pc = "race"
    /\ attempt = max_attempts
    /\ \E page \in Fetches : scrape_race(page, courses[course_i], race_no) = Raised
    /\ Advance
    /\ log' = LogLine("Failed after retries", courses[course_i], race_no)
    /\ UNCHANGED <<call, all_data, csv, driver, field_index>>

\* an attempt returns: its records, if any, are collected (lines 395-397)
RaceScraped ==
    /\ pc = "race"
    /\ \E page \in Fetches :
          \E race_data \in {scrape_race(page, courses[course_i], race_no)} :
              /\ race_data # Raised
              /\ all_data' = IF Falsy(race_data) THEN all_data
                             ELSE all_data \o race_data.v
              /\ log' = LastLog(page, race_data, courses[course_i], race_no)
    /\ Advance
    /\ UNCHANGED <<call, csv, driver, field_index>>

\* lines 401-416: the collected records are framed and written
WriteFrame ==
    /\ pc = "frame"
    /\ all_data # <<>>
    /\ \E frame \in {Frame(all_data)} :
          /\ csv' = IF frame = Raised THEN csv ELSE frame
          /\ log' = IF frame = Raised THEN log ELSE LogLine("Saved", <<>>, 0)
    /\ pc' = "quit"
    /\ UNCHANGED <<call, course_i, race_no, attempt, all_data, driver, field_index>>

\* lines 417-418: nothing was collected, nothing is written
NoData ==
    /\ pc = "frame"
    /\ all_data = <<>>
    /\ pc' = "quit"
    /\ log' = LogLine("No data collected", <<>>, 0)
    /\ UNCHANGED <<call, course_i, race_no, attempt, all_data, csv, driver, field_index>>

\* lines 419-420: the driver is released
Quit ==
    /\ pc = "quit"
    /\ pc' = "done"
    /\ driver' = "quit"
    /\ UNCHANGED <<call, course_i, race_no, attempt, all_data, csv, log, field_index>>

Next ==
    \/ CallParseLbw
    \/ Return
    \/ Initialize
    \/ AttemptRetried
    \/ RaceFailed
    \/ RaceScraped
    \/ WriteFrame
    \/ NoData
    \/ Quit

Spec == Init /\ [][Next]_vars

\* main alone, from its first statement to its last
NextMain ==
    \/ Initialize
    \/ AttemptRetried
    \/ RaceFailed
    \/ RaceScraped
    \/ WriteFrame
    \/ NoData
    \/ Quit

\* main is one sequential program: while it has a next statement it takes it
SpecMain == Init /\ [][NextMain]_vars /\ WF_vars(NextMain)

----------------------------------------------------------------------------
(* Properties *)

\* scrape_race was called on a result page and got as far as the header
RaceCalled == call.fn = "scrape_race" /\ call.class_features # None

\* C1: a participant placed 1 has the margin sentinel "0.01" whatever the raw
\* margin text is: parse_lbw(text, 1) returns it; every record the row assembler
\* collected with Placing 1 already holds it, so the override pass of main
\* changes the LBW of none; and every written row with Placing 1 holds it.
C1_WinnerSentinel ==
    /\ (call.fn = "parse_lbw" /\ call.args[2] = PyInt(1)) => call.ret = PyStr(s_0_01)
    /\ \A i \in DOMAIN all_data :
          all_data[i].Placing = PyInt(1) => all_data[i].LBW = PyStr(s_0_01)
    /\ csv # None =>
          \A i \in DOMAIN csv.rows :
              csv.rows[i].Placing = PyInt(1) => csv.rows[i].LBW = PyStr(s_0_01)

\* the written frame holds the dead-heat winner whose margin cell read "abc"
C1_WinnerWritten ==
    /\ csv # None
    /\ \E i \in DOMAIN csv.rows :
          /\ csv.rows[i].Placing = PyInt(1)
          /\ csv.rows[i].HorseNumber = PyInt(2)
          /\ csv.rows[i].LBW = PyStr(s_0_01)

ParserNames ==
    { "safe_int", "safe_float", "parse_date", "parse_distance", "parse_weight",
      "convert_time_to_seconds", "parse_lbw" }

\* C2: every scalar parser is total: on every text, the null, the placeholders
\* and malformed text included, it returns a value or None and never raises.
C2_ParsersTotal == call.fn \in ParserNames => call.ret # Raised

\* parse_date raises on a date pattern whose day and month are out of range
C2_DateRaises ==
    call = [ fn |-> "parse_date", args |-> <<PyStr(<<"3", "2", "/", "1", "3", "/", "2", "0", "2", "5">>)>>, ret |-> Raised ]

\* C3: header construction never aborts because a cell is missing: for every
\* combination of present and absent header cells (a present date cell holding
\* a valid date) scrape_race builds the header and returns the page's records.
C3_HeaderAlwaysBuilt ==
    (/\ RaceCalled
     /\ call.args[1].date_span \in {None, PyStr(<<"R", "a", "c", "e", " ", "M", "e", "e", "t", "i", "n", "g", ":", " ", "0", "4", "/", "0", "5", "/", "2", "0", "2", "5", " ", "S", "h", "a", " ", "T", "i", "n">>),
                                    PyStr(<<"0", "4", "/", "0", "5", "/", "2", "0", "2", "5">>)})
    => (call.metadata # Raised /\ call.ret # Raised)

\* the surface cell is absent, the distance is present, and scrape_race raises
C3_NoSurfaceRaises ==
    /\ RaceCalled
    /\ Len(call.args[1].going_td) = 1
    /\ call.args[1].date_span = PyStr(<<"R", "a", "c", "e", " ", "M", "e", "e", "t", "i", "n", "g", ":", " ", "0", "4", "/", "0", "5", "/", "2", "0", "2", "5", " ", "S", "h", "a", " ", "T", "i", "n">>)
    /\ call.args[1].width_td = WidthTd(<<"w", "i", "d", "t", "h", ":", "a", "u", "t", "o">>, <<"C", "l", "a", "s", "s", " ", "4", " ", "-", " ", "1", "2", "0", "0", "M", " ", "-", " ", "(", "6", "0", "-", "4", "0", ")">>)
    /\ call.metadata = Raised
    /\ call.ret = Raised

\* C4: a field whose cell is missing is null, never a default: with the class
\* cell missing ClassType, Class, ClassML and ClassCategory are null, and with
\* a course code that is neither ST nor HV the venue is not set to HV.
C4_MissingIsNull ==
    RaceCalled =>
        /\ call.args[1].width_td = None =>
              /\ call.class_features.ClassType = None
              /\ call.class_features.Class = None
              /\ call.class_features.ClassML = None
              /\ call.class_features.ClassCategory = None
        /\ (call.args[2] \notin {s_ST, s_HV} /\ call.metadata # Raised) =>
              call.metadata.RaceCourse # PyStr(s_HV)

\* a record is emitted with the stand-in class values and the venue HV for the
\* course code KR
C4_DefaultsEmitted ==
    /\ RaceCalled
    /\ call.args[1].width_td = None
    /\ call.args[2] = <<"K", "R">>
    /\ call.ret.t = "list"
    /\ \E i \in DOMAIN call.ret.v :
          /\ call.ret.v[i].ClassType = PyStr(<<"u", "n", "k", "n", "o", "w", "n">>)
          /\ call.ret.v[i].Class = PyStr(<<"0">>)
          /\ call.ret.v[i].ClassML = PyInt(0)
          /\ call.ret.v[i].ClassCategory = PyStr(<<"u", "n", "k", "n", "o", "w", "n", "_", "0">>)
          /\ call.ret.v[i].RaceCourse = PyStr(s_HV)

\* the lower-cased text of the class cell of a scrape_race call
ClassLabel == Lower(call.args[1].width_td.text)

\* C5: for every class label that contains 'griffin', whatever else it holds,
\* the resolved header has ClassType "GRF", ClassLevel 6, ClassML 6 and
\* ClassCategory "GRF_6", and so has every record of the race.
C5_GriffinWins ==
    (/\ RaceCalled
     /\ call.args[1].width_td # None
     /\ Contains(ClassLabel, <<"g", "r", "i", "f", "f", "i", "n">>))
    => /\ call.class_features.ClassType = PyStr(<<"G", "R", "F">>)
       /\ call.class_features.ClassLevel = PyInt(6)
       /\ call.class_features.ClassML = PyInt(6)
       /\ call.class_features.ClassCategory = PyStr(<<"G", "R", "F", "_", "6">>)
       /\ call.ret.t = "list" =>
             \A i \in DOMAIN call.ret.v :
                 /\ call.ret.v[i].ClassType = PyStr(<<"G", "R", "F">>)
                 /\ call.ret.v[i].ClassLevel = PyInt(6)
                 /\ call.ret.v[i].ClassML = PyInt(6)
                 /\ call.ret.v[i].ClassCategory = PyStr(<<"G", "R", "F", "_", "6">>)

\* a label with griffin, restricted and a group phrase resolves to GRF_6
C5_GriffinRestrictedGroup ==
    /\ RaceCalled
    /\ call.args[1].width_td # None
    /\ call.args[1].width_td.text = <<"r", "e", "s", "t", "r", "i", "c", "t", "e", "d", " ", "G", "r", "o", "u", "p", " ", "O", "n", "e", " ", "g", "r", "i", "f", "f", "i", "n">>
    /\ call.ret.t = "list"
    /\ Len(call.ret.v) = 1
    /\ call.ret.v[1].ClassCategory = PyStr(<<"G", "R", "F", "_", "6">>)
    /\ call.ret.v[1].ClassRestricted = PyInt(1)

DistanceGroups == <<s_Sprint, s_Short, s_Mid, s_Long, s_Endurance>>

\* the ordinal of a distance group; 0 for Unknown
GroupOrdinal(g) ==
    IF \E i \in DOMAIN DistanceGroups : DistanceGroups[i] = g.v
    THEN CHOOSE i \in DOMAIN DistanceGroups : DistanceGroups[i] = g.v
    ELSE 0

\* C6: on a venue text, a surface text and an integer distance
\* get_distance_group returns one of Sprint, Short, Mid, Long, Endurance,
\* Unknown, the same for every spelling of venue and surface in upper and lower
\* case: Unknown for a venue other than ST and HV; Sprint for (ST, TURF, 1000),
\* Short for (ST, TURF, 1400), Long for (HV, TURF, 2200); Sprint on the Sha Tin
\* all-weather track up to 1000; and for a venue and surface the group never
\* moves to a lower ordinal as the distance grows.
C6_DistanceGroup ==
    (/\ call.fn = "get_distance_group"
     /\ IsStr(call.args[1]) /\ IsStr(call.args[2]) /\ call.args[3] # None)
    => LET venue    == Upper(call.args[1].v)
           surface  == Upper(call.args[2].v)
           distance == call.args[3].v
       IN  /\ IsStr(call.ret)
           /\ call.ret.v \in {DistanceGroups[i] : i \in DOMAIN DistanceGroups}
                             \cup {s_Unknown}
           /\ call.ret = get_distance_group(PyStr(venue), PyStr(surface), call.args[3])
           /\ venue \notin {s_ST, s_HV} <=> call.ret.v = s_Unknown
           /\ (venue = s_ST /\ surface = s_TURF /\ distance = 1000)
                 => call.ret.v = s_Sprint
           /\ (venue = s_ST /\ surface = s_TURF /\ distance = 1400)
                 => call.ret.v = s_Short
           /\ (venue = s_HV /\ surface = s_TURF /\ distance = 2200)
                 => call.ret.v = s_Long
           /\ (venue = s_ST /\ surface = s_AWT /\ distance <= 1000)
                 => call.ret.v = s_Sprint
           /\ \A further \in DistanceValues :
                 further >= distance =>
                     GroupOrdinal(get_distance_group(call.args[1], call.args[2],
                                                     PyInt(further)))
                         >= GroupOrdinal(call.ret)

\* the Sha Tin all-weather 1000 metres, in lower case, is a Sprint
C6_AwtSprint ==
    /\ call.fn = "get_distance_group"
    /\ call.args = <<PyStr(<<"s", "t">>), PyStr(<<"a", "w", "t">>), PyInt(1000)>>
    /\ call.ret = PyStr(s_Sprint)

\* the documented margins of the closed vocabulary
VocabMargins ==
    { <<<<"N", "O", "S", "E">>, <<"0", ".", "0", "5">>>>, <<<<"S", "H">>, <<"0", ".", "1">>>>, <<<<"H", "D">>, <<"0", ".", "2">>>>,
      <<<<"N", "K">>, <<"0", ".", "3">>>>, <<<<"D", "I", "S", "T">>, <<"9", "9">>>>, <<<<"S", ".", "D", "I", "S", "T">>, <<"5", "0">>>>,
      <<<<"S", "A", "M", "E">>, <<"0", ".", "0", "1">>>> }

\* C7: for a placing other than 1, a margin text that is a closed-vocabulary
\* token in any letter case, with any whitespace around it, gives the token's
\* documented margin exactly.
C7_Vocabulary ==
    (/\ call.fn = "parse_lbw"
     /\ call.args[2] # PyInt(1)
     /\ IsStr(call.args[1]))
    => \A e \in VocabMargins :
           Upper(Strip(call.args[1].v)) = e[1] => call.ret = PyStr(e[2])

\* s.dist in lower case after a no-break space gives 50
C7_LowerSDist ==
    /\ call.fn = "parse_lbw"
    /\ call.args = <<PyStr(<<"nbsp">> \o <<"s", ".", "d", "i", "s", "t">>), PyInt(2)>>
    /\ call.ret = PyStr(<<"5", "0">>)

\* s is N/M, N and M digit strings
IsSimpleFraction(s) ==
    \E i \in 2..(Len(s) - 1) :
        /\ s[i] = "/"
        /\ \A j \in 1..Len(s) : j # i => IsDigitChar(s[j])

\* s is W-N/M, W, N and M digit strings
IsMixedNumber(s) ==
    \E i \in 2..(Len(s) - 3) :
        /\ s[i] = "-"
        /\ \A j \in 1..(i - 1) : IsDigitChar(s[j])
        /\ IsSimpleFraction(SubSeq(s, i + 1, Len(s)))

\* the place of the '/' and of the '-' of a fraction text
SlashAt(s) == CHOOSE i \in 1..Len(s) : s[i] = "/"

DashAt(s) == CHOOSE i \in 1..Len(s) : s[i] = "-"

\* the text is the decimal text of a float of value n/d: its digits when the
\* expansion ends and the float is the nearest to n/d, the repr otherwise
IsDecimalTextOf(x, n, d) ==
    /\ IsStr(x)
    /\ \E near \in BOOLEAN : x.v = FloatStr(MkFloat(n, d, near))

\* C8: for a placing other than 1 and a margin text with any whitespace
\* around it, N/M with M not zero gives the decimal text
\* of N/M and W-N/M the decimal text of W + N/M ("3/4" gives 0.75, "1-1/2"
\* gives 1.5, never the 5.5 of 11/2); a zero denominator gives null; and a text
\* with a '/' that is neither of the two gives null.
C8_Fractions ==
    (/\ call.fn = "parse_lbw"
     /\ call.args[2] # PyInt(1)
     /\ IsStr(call.args[1]))
    => LET s     == Strip(call.args[1].v)
           num   == IntOf(SubSeq(s, (IF IsMixedNumber(s) THEN DashAt(s) ELSE 0) + 1,
                                 SlashAt(s) - 1))
           den   == IntOf(SubSeq(s, SlashAt(s) + 1, Len(s)))
           whole == IntOf(SubSeq(s, 1, DashAt(s) - 1))
       IN  /\ (IsSimpleFraction(s) /\ den # 0) =>
                 IsDecimalTextOf(call.ret, num, den)
           /\ (IsMixedNumber(s) /\ den # 0) =>
                 IsDecimalTextOf(call.ret, whole * den + num, den)
           /\ ((IsSimpleFraction(s) \/ IsMixedNumber(s)) /\ den = 0) =>
                 call.ret = None
           /\ (Contains(s, <<"/">>) /\ ~IsSimpleFraction(s) /\ ~IsMixedNumber(s)) =>
                 call.ret = None
           /\ s = <<"3", "/", "4">> => call.ret = PyStr(<<"0", ".", "7", "5">>)
           /\ s = <<"1", "-", "1", "/", "2">> => call.ret = PyStr(<<"1", ".", "5">>)

\* the mixed number 1-1/2 gives 1.5
C8_MixedNumber ==
    /\ call.fn = "parse_lbw"
    /\ call.args = <<PyStr(<<"1", "-", "1", "/", "2">>), PyInt(2)>>
    /\ call.ret = PyStr(<<"1", ".", "5">>)

\* the table's turn count of (course, surface, distance), None when not listed
Listed(course, surface, distance) ==
    IF \E e \in _TURN_COUNT_MAP : e[1] = course /\ e[2] = surface /\ e[3] = distance
    THEN (CHOOSE e \in _TURN_COUNT_MAP :
              e[1] = course /\ e[2] = surface /\ e[3] = distance)[4]
    ELSE None

\* C9: get_turn_count is an exact lookup in the table: 0.0 for (ST, TURF, 1000),
\* which is_straight; 1.5 for (HV, TURF, 1200), which is_fractional_turn; 2.0 for
\* (ST, AWT, 1650); null for a distance that does not read as an integer and for
\* every (venue, surface, distance) the table does not list; and for the venue
\* HV the listed turf value whatever the surface.
C9_TurnCount ==
    call.fn = "get_turn_count"
    => LET course   == _norm_course(call.args[1])
           surface  == _norm_surface(call.args[2])
           distance == IntParse(ToStrNum(call.args[3]))
       IN  /\ distance = Raised => call.ret = None
           /\ (distance # Raised /\ course # s_HV) =>
                 call.ret = Listed(course, surface, distance.v)
           /\ (distance # Raised /\ course = s_HV) =>
                 call.ret = Listed(s_HV, s_TURF, distance.v)
           /\ call.args = <<PyStr(s_ST), PyStr(s_TURF), PyInt(1000)>> =>
                 call.ret = PyFloat(0, 1) /\ is_straight(call.ret)
           /\ call.args = <<PyStr(s_HV), PyStr(s_TURF), PyInt(1200)>> =>
                 call.ret = PyFloat(3, 2) /\ is_fractional_turn(call.ret)
           /\ call.args = <<PyStr(s_ST), PyStr(s_AWT), PyInt(1650)>> =>
                 call.ret = PyFloat(2, 1)
           /\ call.args = <<PyStr(s_ST), PyStr(s_TURF), PyInt(1100)>> =>
                 call.ret = None

\* Happy Valley 1200 asked for on the all-weather surface gives the turf's 1.5
C9_HappyValleyAwt ==
    /\ call.fn = "get_turn_count"
    /\ call.args = <<PyStr(<<"h", "v">>), PyStr(s_AWT), PyInt(1200)>>
    /\ call.ret = PyFloat(3, 2)

\* the band of a draw number
DrawBand(draw) ==
    IF draw <= 0 THEN None
    ELSE IF draw <= 3 THEN PyStr(s_Inside)
    ELSE IF draw <= 6 THEN PyStr(s_InnerMid)
    ELSE IF draw <= 9 THEN PyStr(s_OuterMid)
    ELSE IF draw <= 12 THEN PyStr(s_Wide)
    ELSE PyStr(s_Outer)

\* C10: get_draw_group(draw, field_size) is the band of the draw alone, the
\* same for every field_size, none included: Inside for 1-3, InnerMid for 4-6,
\* OuterMid for 7-9, Wide for 10-12, Outer from 13 on, null for a null draw, a
\* draw that does not read as an integer, and a draw that is not positive.
C10_DrawGroup ==
    call.fn = "get_draw_group"
    => LET draw == IF call.args[1] = None THEN Raised
                   ELSE IntParse(ToStrNum(call.args[1]))
       IN  /\ call.ret = IF draw = Raised THEN None ELSE DrawBand(draw.v)
           /\ call.args[1] \in {PyInt(d) : d \in 1..3} => call.ret = PyStr(s_Inside)
           /\ call.args[1] \in {PyInt(d) : d \in 4..6} => call.ret = PyStr(s_InnerMid)
           /\ call.args[1] \in {PyInt(d) : d \in 7..9} => call.ret = PyStr(s_OuterMid)
           /\ call.args[1] \in {PyInt(d) : d \in 10..12} => call.ret = PyStr(s_Wide)
           /\ call.args[1] \in {PyInt(d) : d \in 13..MaxDraw} => call.ret = PyStr(s_Outer)
           /\ call.args[1] \in {None, PyInt(0), PyInt(0 - 1), PyFloat(11, 2),
                                PyStr(<<"x">>), PyStr(<<>>)} => call.ret = None

\* draw 5 in a field of 20 is InnerMid
C10_FiveOfTwenty ==
    /\ call.fn = "get_draw_group"
    /\ call.args = <<PyInt(5), PyInt(20)>>
    /\ call.ret = PyStr(s_InnerMid)

\* the declared columns as a set
ColumnSet == {columns[i] : i \in DOMAIN columns}

\* C11: every record the row assembler emitted (the records main collected and
\* those of a scrape_race call) carries every one of the 32 declared columns,
\* and the written frame has exactly the declared columns, in the declared
\* order, in its header and in each of its rows.
C11_DeclaredColumns ==
    /\ Len(columns) = 32 /\ Cardinality(ColumnSet) = 32
    /\ \A i \in DOMAIN all_data : ColumnSet \subseteq DOMAIN all_data[i]
    /\ csv # None =>
          /\ csv.header = columns
          /\ \A i \in DOMAIN csv.rows : DOMAIN csv.rows[i] = ColumnSet

\* the frame holds the row of the page without header cells: its header
\* fields and its horse fields are null, and no column is missing
C11_SparseRowWritten ==
    /\ csv # None
    /\ \E i \in DOMAIN csv.rows :
          /\ DOMAIN csv.rows[i] = ColumnSet
          /\ csv.rows[i].HorseNumber = PyInt(4)
          /\ csv.rows[i].RaceID = None
          /\ csv.rows[i].Distance = None
          /\ csv.rows[i].Surface = None
          /\ csv.rows[i].HorseID = None
          /\ csv.rows[i].HorseName = None
          /\ csv.rows[i].WinOdds = None

\* main goes on from race r of course c: to the next race, or to the frame
MovedOn(c, r) ==
    IF r + 1 < race_num_stop THEN pc' = "race" /\ course_i' = c /\ race_no' = r + 1
    ELSE IF c < Len(courses) THEN pc' = "race" /\ course_i' = c + 1 /\ race_no' = 1
    ELSE pc' = "frame"

\* C12: a race is attempted at most max_attempts = 3 times; an attempt count
\* only grows by one, on a failed attempt and for the same race, or starts
\* again at 1; the failure of the last attempt is logged by main, which keeps
\* what it collected and goes on to the next race; a page saying "No result"
\* ends its race in that attempt, nothing collected, main going on; the races
\* are attempted from race 1 of the first course on, main leaving a race only
\* for the next one and the last race only for the frame, so that no race is
\* passed over; every run comes to the last race of the last course; and
\* every run ends with the driver released.
C12_RetryThenContinue ==
    /\ [](attempt \in 1..max_attempts)
    /\ [][attempt' # attempt =>
            \/ /\ attempt' = attempt + 1
               /\ log' = LogLine("Race scraping error", courses[course_i], race_no)
               /\ UNCHANGED <<pc, course_i, race_no, all_data>>
            \/ attempt' = 1]_vars
    /\ [][(log' # log /\ log'.msg = "Failed after retries") =>
            /\ attempt = max_attempts /\ attempt' = 1
            /\ log' = LogLine("Failed after retries", courses[course_i], race_no)
            /\ all_data' = all_data
            /\ MovedOn(course_i, race_no)]_vars
    /\ [][(log' # log /\ log'.msg = "No results") =>
            /\ attempt' = 1
            /\ log' = LogLine("No results", courses[course_i], race_no)
            /\ all_data' = all_data
            /\ MovedOn(course_i, race_no)]_vars
    /\ [][pc # "race" /\ pc' = "race" => course_i' = 1 /\ race_no' = 1 /\ attempt' = 1]_vars
    /\ [][(pc = "race" /\ <<pc, course_i, race_no>>' # <<pc, course_i, race_no>>) =>
            MovedOn(course_i, race_no)]_vars
    /\ <>(pc = "race" /\ course_i = Len(courses) /\ race_no = race_num_stop - 1)
    /\ <>[](pc = "done" /\ driver = "quit")

\* race 5 of Sha Tin failed after its last attempt and main is at race 6
C12_FailedRaceLeftBehind ==
    /\ log = LogLine("Failed after retries", s_ST, 5)
    /\ pc = "race"
    /\ course_i = 1
    /\ race_no = 6
    /\ attempt = 1

\* a step in which get_field_size is called and returns
FieldSizeCalled == call = Idle /\ call'.fn = "get_field_size"

NullArgument(args) == \E i \in 1..3 : args[i] = None

\* a race number that is no integer: a float with a fraction, a text that is
\* no int literal
NonIntegerArgument(n) ==
    \/ (n.t = "float" /\ n.n % n.d # 0)
    \/ (n.t = "str" /\ IntParse(n.v) = Raised)

\* a str date, a str venue and an integer race number: the arguments that name a key
NamesKey(args) ==
    /\ IsStr(args[1]) /\ IsStr(args[2])
    /\ args[3] # None /\ ~NonIntegerArgument(args[3])

\* (date, upper-cased venue, integer race number)
FieldKey(args) == <<args[1].v, Upper(Strip(args[2].v)), PyIntOf(args[3]).v>>

\* the field size of what the store gave: of a row its column as an int, else null
FieldSizeOfRow(row) ==
    IF row = None \/ row = Raised THEN None
    ELSE IF row.v[1] = None \/ PyIntOf(row.v[1]) = Raised THEN None
    ELSE PyIntOf(row.v[1])

\* no call changes the in-memory table
C13_TableLeftUnchanged == [][_FIELD_SIZE_LOOKUP' = _FIELD_SIZE_LOOKUP]_vars

\* a key the table holds is answered from the table, the store not queried
C13_TableAnswersFirst ==
    [][(FieldSizeCalled /\ NamesKey(call'.args) /\ FieldKey(call'.args) \in DOMAIN _FIELD_SIZE_LOOKUP) =>
          /\ call'.ret = PyInt(_FIELD_SIZE_LOOKUP[FieldKey(call'.args)])
          /\ UNCHANGED <<db_queries, db_last>>]_vars

\* a key the table does not hold sends one statement to the store, with the
\* date's slashes turned to dashes and the race number as text, and the field
\* size of the row it gives, or null, is returned; a store that cannot be
\* opened gives null
C13_StoreAskedOnceOnMiss ==
    [][(FieldSizeCalled /\ NamesKey(call'.args) /\ FieldKey(call'.args) \notin DOMAIN _FIELD_SIZE_LOOKUP) =>
          \/ /\ db_queries' = db_queries + 1
             /\ db_last'.params = [RaceDate   |-> SlashToDash(FieldKey(call'.args)[1]),
                                   RaceCourse |-> FieldKey(call'.args)[2],
                                   RaceNo     |-> DigitsOf(FieldKey(call'.args)[3])]
             /\ call'.ret = FieldSizeOfRow(db_last'.row)
          \/ /\ UNCHANGED <<db_queries, db_last>>
             /\ call'.ret = None]_vars

\* a null argument or a race number that is no integer gives null without raising
C13_NullOnBadArgument ==
    [][(FieldSizeCalled /\ (NullArgument(call'.args) \/ NonIntegerArgument(call'.args[3]))) =>
          call'.ret = None]_vars

\* C13: get_field_size answers from the in-memory table when it holds the key
\* (date, upper-cased venue, integer race number) and does not query the store
\* then; on a miss it queries the store once and returns the field size of the
\* single record, or null; the table is never changed; a null or non-integer
\* argument or a store failure gives null without raising.
C13_TableThenStoreOnce ==
    /\ C13_TableLeftUnchanged
    /\ C13_TableAnswersFirst
    /\ C13_StoreAskedOnceOnMiss
    /\ C13_NullOnBadArgument

\* race number 1.5 was answered with the field size the table holds for race 1
C13_FractionalRaceNumberAnswered ==
    /\ call.fn = "get_field_size"
    /\ call.args = <<PyStr(s_RaceDay), PyStr(s_ST), PyFloat(3, 2)>>
    /\ call.ret = PyInt(12)

\* a venue that is no str made the call raise, the race number being no integer
C13_VenueRaised ==
    /\ call.fn = "get_field_size"
    /\ call.args = <<PyStr(s_RaceDay), PyInt(1), PyStr(<<"x">>)>>
    /\ call.ret = Raised

\* the row's horse number cell is absent or holds something that is no number
NumberAbsentOrNonNumeric(row) ==
    \/ Len(row.cols) < 2
    \/ Strip(row.cols[2]) \in Placeholders \cup {<<>>}
    \/ \E i \in DOMAIN Strip(row.cols[2]) : ~IsDigitChar(Strip(row.cols[2])[i])

\* the row is emitted: enough cells, a numeric horse number, processing that
\* does not raise
RowEmitted(row) ==
    /\ Len(row.cols) >= 12
    /\ ~NumberAbsentOrNonNumeric(row)
    /\ ~RowRaises(row)

\* the page with its result table holding these rows
WithRows(page, rows) == [page EXCEPT !.rows = rows]

\* C14: a row whose horse number cell is absent or non-numeric, that has too
\* few cells, or whose processing raises is skipped and is no error of the
\* race: the attempt raises only when it would raise with no row at all. The
\* records are those of the remaining rows in page order: as many as rows
\* remain, the list the page would give with the skipped rows taken off it,
\* and each record the one its row gives when it is the only row of the page.
C14_SkippedRowsLeaveSiblings ==
    (call.fn = "scrape_race" /\ ~call.args[1].failed /\ ~call.args[1].no_result) =>
        LET page == call.args[1]
            kept == SelectSeq(page.rows, RowEmitted)
        IN  IF call.ret = Raised
            THEN scrape_race(WithRows(page, <<>>), call.args[2], call.args[3]) = Raised
            ELSE /\ call.ret.t = "list"
                 /\ Len(call.ret.v) = Len(kept)
                 /\ call.ret = scrape_race(WithRows(page, kept), call.args[2], call.args[3])
                 /\ \A i \in DOMAIN kept :
                       PyList(<<call.ret.v[i]>>) =
                           scrape_race(WithRows(page, <<kept[i]>>), call.args[2], call.args[3])

\* a row whose odds raise stood between two good rows, and both were emitted
C14_RaisingRowBetweenSiblings ==
    /\ call.fn = "scrape_race"
    /\ call.args[1].rows = <<WinnerRow, BadOddsRow, GoodRow>>
    /\ call.ret.t = "list"
    /\ Len(call.ret.v) = 2
    /\ call.ret.v[1].HorseNumber = PyInt(3)
    /\ call.ret.v[2].HorseNumber = PyInt(5)

\* a short row, a row without a number and a row with a lettered number gave no record
C14_OnlySkippedRows ==
    /\ call.fn = "scrape_race"
    /\ call.args[1].rows = <<ShortRow, UnnumberedRow, LetteredRow>>
    /\ call.ret = PyList(<<>>)

====
